---------------------------- MODULE Spec2Model ----------------------------
(***************************************************************************)
(* Model of redis-web-manager's backend core:                              *)
(*   - the connection registry (server/src/redisManager.ts) together with  *)
(*     the connection-profile store it resolves identifiers against        *)
(*     (fileStore.ts),                                                     *)
(*   - the keyspace scanner     (POST /api/keys  in server/src/index.ts),  *)
(*   - the value inspector      (POST /api/value in server/src/index.ts)   *)
(*     and the client's "load more" loop that resumes it.                  *)
(*                                                                         *)
(* Node runs one handler at a time until its next await, so every action   *)
(* below is the code between two suspension points of a handler.           *)
(***************************************************************************)
EXTENDS Integers, Sequences, FiniteSets, TLC

\* number of Redis client objects the registry may construct in one run
MaxClients == 2

(***************************************************************************)
(* Values.                                                                 *)
(***************************************************************************)
\* JavaScript's undefined, for the optional string fields
Undefined == "<undefined>"

\* slots for the getConnection calls that may be in flight together
Callers == {1, 2}

\* identifiers under which profiles may be saved
Ids == {"id1", "id2"}

\* optional number: the db field of a profile, the dbIndex argument
NoNumber == [kind |-> "undefined", n |-> 0]

Num(n) == [kind |-> "number", n |-> n]

\* dbIndex argument of getConnection: absent, or an explicit database 0
DbArgs == {NoNumber, Num(0)}

\* the profile the model saves under each id: the two differ in how they
\* spell "no password" and in how they spell the default db
Profile(id) ==
  IF id = "id1" THEN
    [host |-> "h1", port |-> 6379, password |-> Undefined, db |-> NoNumber,
     createdAt |-> 1]
  ELSE
    [host |-> "h1", port |-> 6379, password |-> "", db |-> Num(0),
     createdAt |-> 1]

\* "no such entry" of the profile store
None == [host |-> Undefined, port |-> 0, password |-> Undefined,
         db |-> NoNumber, createdAt |-> 0]

\* the configOrId argument of getConnection: a connection id or a RedisConfig
ById(id) == [kind |-> "id", id |-> id, config |-> None]

Literal(config) == [kind |-> "config", id |-> Undefined, config |-> config]

\* the arguments the model calls getConnection with: the ids, and the config
\* under validation that POST /api/connections passes ({...config, db: 0}),
\* which carries a password
ConfigOrIds ==
  {ById(id) : id \in Ids} \cup
  {Literal([host |-> "h1", port |-> 6379, password |-> "s3cret",
            db |-> Num(0)])}

\* "no client" of a call; the clients are numbered from 1
NoClient == 0

VARIABLES
  \* FileStore: the saved profiles, by id (None = no profile with that id)
  fileStore,
  \* every Redis client object constructed so far, in order of construction
  clients,
  \* RedisManager.connections: connectionKey -> index into clients
  connections,
  \* the getConnection calls: position and locals of each
  call,
  \* the POST /api/keys request: its position and locals
  scan,
  \* the key under inspection, as the backend holds it
  store,
  \* the previewLimit the client sends with every /api/value request
  limitRaw,
  \* the last /api/value response the client received
  resp,
  \* the value editor's state (ValueEditor.tsx)
  view,
  \* the business request being answered: its path and its JSON body
  req,
  \* the key the request names, as the backend holds it
  kv,
  \* what the handler did for the request, in order: the Session it
  \* acquired and the commands it sent
  log,
  \* the response to the request
  res,
  \* the last response of the connection-profile endpoints
  out,
  \* a request's db field on its way to the database the Session targets
  dbCase,
  \* a new client on its way to its first connection: getConnection from
  \* new Redis to the end of await client.connect()
  dial,
  \* two parameter sets and the connection keys computed for them
  keyCase,
  \* the PUT /api/connections/:id handlers awaiting their connection check
  put,
  \* the value editor: the selected key, what it shows, the loads in flight
  editor,
  \* the connection manager of the client: connectionsLoadStatus, its fetch
  loader

regVars == <<fileStore, clients, connections, call>>

insVars == <<store, limitRaw, resp, view>>

\* the mutation and inspect handlers and the key they work on
apiVars == <<req, kv, log, res>>

\* the state of the specifications further down, each of which moves its
\* own variable
extVars == <<dbCase, dial, keyCase, put, editor, loader>>

vars == <<fileStore, clients, connections, call, scan, store, limitRaw, resp,
          view, req, kv, log, res, out, extVars>>

(***************************************************************************)
(* FileStore (fileStore.ts)                                                *)
(***************************************************************************)
\* FileStore.get that answers for a deleted id with the profile it once held
FileStoreGet_Stale(saved, id) ==
  IF saved[id] = None THEN Profile(id) ELSE saved[id]

\* FileStore.get: the profile saved under id, or undefined
FileStoreGet(saved, id) == saved[id]

\* FileStore.add
FileStoreAdd(id, cfg) ==
  /\ fileStore[id] = None
  /\ fileStore' = [fileStore EXCEPT ![id] = cfg]
  /\ UNCHANGED <<clients, connections, call, scan, insVars, apiVars,
                 out, extVars>>

\* FileStore.remove
FileStoreRemove(id) ==
  /\ fileStore[id] # None
  /\ fileStore' = [fileStore EXCEPT ![id] = None]
  /\ UNCHANGED <<clients, connections, call, scan, insVars, apiVars,
                 out, extVars>>

(***************************************************************************)
(* RedisManager.getConnection (redisManager.ts)                            *)
(***************************************************************************)
\* config.password || ''
PasswordOrEmpty(password) ==
  IF password = Undefined \/ password = "" THEN "" ELSE password

\* `${n}` of a number
NumStr(d) == IF d.kind = "number" THEN ToString(d.n) ELSE "NaN"

\* dbIndex !== undefined ? dbIndex : (config.db || 0)
TargetDb(config, dbIndex) ==
  IF dbIndex.kind # "undefined" THEN dbIndex
  ELSE IF config.db.kind = "number" /\ config.db.n # 0 THEN config.db
  ELSE Num(0)

\* the map keyed by the display key `${config.host}:${config.port}:${targetDb}`
ConnectionKey_NoPassword(config, targetDb) ==
  config.host \o ":" \o ToString(config.port) \o ":" \o NumStr(targetDb)

\* `${config.host}:${config.port}:${targetDb}:${config.password || ''}`
ConnectionKey(config, targetDb) ==
  config.host \o ":" \o ToString(config.port) \o ":" \o NumStr(targetDb)
    \o ":" \o PasswordOrEmpty(config.password)

\* client.status === 'ready' || client.status === 'connect'
IsAlive(status) == status = "ready" \/ status = "connect"

\* a call slot: pc is the position of the call, the rest its locals
\* (configOrId, config, targetDb, connectionKey, client) and the error thrown
IdleCall == [pc |-> "idle", arg |-> ById(Undefined), config |-> None,
             db |-> NoNumber, key |-> Undefined, client |-> NoClient,
             error |-> "none"]

\* new Redis({host, port, password, db, lazyConnect: true, retryStrategy})
\* followed by client.connect(): the client leaves 'wait' for 'connecting'
NewClient(config, targetDb) ==
  [host |-> config.host, port |-> config.port, password |-> config.password,
   db |-> targetDb, status |-> "connecting"]

\* a disconnect that leaves the socket as it is
Disconnect_Noop(client) == client

\* client.disconnect(): the socket is closed for good
Disconnect(client) == [client EXCEPT !.status = "end"]

\* getConnection from its entry to its first await (or its return/throw
\* before it): resolve, compute the key, look the map up, evict, construct.
\* arg is configOrId; dbIndex the optional database override.
Acquire(c, arg, dbIndex) ==
  /\ call[c].pc = "idle"
  /\ \A b \in Callers : b < c => call[b].pc # "idle"   \* lowest free slot
  /\ LET storedConfig == IF arg.kind = "id"
                         THEN FileStoreGet(fileStore, arg.id)
                         ELSE arg.config
     IN
     IF arg.kind = "id" /\ storedConfig = None
     THEN \* throw new Error(`Connection with ID ... not found`)
          /\ call' = [call EXCEPT ![c] =
                 [IdleCall EXCEPT !.pc = "failed", !.arg = arg, !.error = "NotFound"]]
          /\ UNCHANGED <<fileStore, clients, connections, scan, insVars,
                         apiVars, out, extVars>>
     ELSE
       LET targetDb == TargetDb(storedConfig, dbIndex)
           key      == ConnectionKey(storedConfig, targetDb)
           base     == [IdleCall EXCEPT !.arg = arg, !.db = targetDb,
                                        !.config = storedConfig, !.key = key]
       IN
       IF key \in DOMAIN connections /\ IsAlive(clients[connections[key]].status)
       THEN \* return client
            /\ call' = [call EXCEPT ![c] =
                   [base EXCEPT !.pc = "done", !.client = connections[key]]]
            /\ UNCHANGED <<fileStore, clients, connections, scan, insVars,
                           apiVars, out, extVars>>
       ELSE \* cleanup of a dead connection, then new Redis + connect()
            /\ Len(clients) < MaxClients
            /\ LET evicted ==
                     IF key \in DOMAIN connections
                     THEN [clients EXCEPT ![connections[key]] = Disconnect(@)]
                     ELSE clients
               IN clients' = Append(evicted, NewClient(storedConfig, targetDb))
            /\ connections' =
                 [k \in DOMAIN connections \ {key} |-> connections[k]]
            /\ call' = [call EXCEPT ![c] =
                   [base EXCEPT !.pc = "awaiting", !.client = Len(clients) + 1]]
            /\ UNCHANGED <<fileStore, scan, insVars, apiVars, out, extVars>>

\* await client.connect() resolved: connections.set(key, client); return
ConnectResolve(c) ==
  /\ call[c].pc = "awaiting"
  /\ clients' = [clients EXCEPT ![call[c].client].status = "ready"]
  /\ connections' =
       [k \in DOMAIN connections \cup {call[c].key} |->
          IF k = call[c].key THEN call[c].client ELSE connections[k]]
  /\ call' = [call EXCEPT ![c].pc = "done"]
  /\ UNCHANGED <<fileStore, scan, insVars, apiVars, out, extVars>>

\* await client.connect() rejected: client.disconnect(); throw error
ConnectReject(c) ==
  /\ call[c].pc = "awaiting"
  /\ clients' = [clients EXCEPT ![call[c].client] = Disconnect(@)]
  /\ call' = [call EXCEPT ![c].pc = "failed", ![c].error = "ConnectFailed"]
  /\ UNCHANGED <<fileStore, connections, scan, insVars, apiVars, out, extVars>>

\* the caller has consumed the result (client or error) of its call
CallReturn(c) ==
  /\ call[c].pc \in {"done", "failed"}
  /\ call' = [call EXCEPT ![c] = IdleCall]
  /\ UNCHANGED <<fileStore, clients, connections, scan, insVars, apiVars,
                 out, extVars>>

(***************************************************************************)
(* The socket of an established client, as ioredis drives its status.      *)
(***************************************************************************)
\* the connection of a ready client drops: ioredis starts to reconnect
SocketDrop(s) ==
  /\ clients[s].status = "ready"
  /\ clients' = [clients EXCEPT ![s].status = "reconnecting"]
  /\ UNCHANGED <<fileStore, connections, call, scan, insVars, apiVars,
                 out, extVars>>

\* the retry delay is over: ioredis calls connect() again, 'connecting'
SocketRetry(s) ==
  /\ clients[s].status = "reconnecting"
  /\ clients' = [clients EXCEPT ![s].status = "connecting"]
  /\ UNCHANGED <<fileStore, connections, call, scan, insVars, apiVars,
                 out, extVars>>

\* the reconnect attempt succeeds: 'connect', then 'ready'
SocketConnect(s) ==
  /\ clients[s].status = "connecting"
  /\ clients' = [clients EXCEPT ![s].status = "connect"]
  /\ UNCHANGED <<fileStore, connections, call, scan, insVars, apiVars,
                 out, extVars>>

SocketReady(s) ==
  /\ clients[s].status = "connect"
  /\ clients' = [clients EXCEPT ![s].status = "ready"]
  /\ UNCHANGED <<fileStore, connections, call, scan, insVars, apiVars,
                 out, extVars>>

\* the clients the registry holds in its map
Registered == {connections[k] : k \in DOMAIN connections}

RegInit ==
  /\ fileStore = [id \in Ids |-> None]
  /\ clients = <<>>
  /\ connections = [k \in {} |-> NoClient]
  /\ call = [c \in Callers |-> IdleCall]

(***************************************************************************)
(* Keyspace scanner: POST /api/keys (index.ts)                             *)
(*                                                                         *)
(* The keys of the store are numbered 1..TotalKeys in the order in which   *)
(* the backend's SCAN cursor walks them; a cursor is the decimal string of *)
(* the number of keys walked so far, "0" at the start and at the end.      *)
(***************************************************************************)
\* if (count >= 1000) break
HardCap == 1000

\* "COUNT", 100
PageCount == 100

\* number of keys in the store
TotalKeys == 1300

\* number of keys beyond COUNT that one SCAN reply may walk (whole buckets)
PageExtra == 20

\* number of already returned keys a SCAN reply repeats while the store
\* rehashes
PageRepeat == 30

\* the pattern field of the request body
Patterns == {Undefined, "*", "user:*", "none:*"}

\* req.body.pattern || "*"
PatternOrStar(pattern) ==
  IF pattern = Undefined \/ pattern = "" THEN "*" ELSE pattern

\* the backend's MATCH: every second key is a user key, no key is a none key
Matches(pattern, k) ==
  \/ pattern = "*"
  \/ pattern = "user:*" /\ k % 2 = 0

\* the backend's TYPE of a key
TypeOf(k) == IF k % 3 = 0 THEN "hash" ELSE IF k % 3 = 1 THEN "string" ELSE "list"

\* the number of keys a cursor stands for
CursorPos(cursor) == CHOOSE p \in 0..TotalKeys : ToString(p) = cursor

\* the increasing sequence of the matching keys among lo..hi
RECURSIVE MatchingKeys(_, _, _)
MatchingKeys(pattern, lo, hi) ==
  IF lo > hi THEN <<>>
  ELSE IF lo = hi THEN (IF Matches(pattern, lo) THEN <<lo>> ELSE <<>>)
  ELSE LET mid == (lo + hi) \div 2 IN
       MatchingKeys(pattern, lo, mid) \o MatchingKeys(pattern, mid + 1, hi)

\* client.scan(cursor, "MATCH", pattern, "COUNT", 100): the reply walks
\* `walk` further keys and, when the store rehashes, repeats the last
\* `repeat` keys already walked; it is [newCursor, scannedKeys]
ScanReply(cursor, pattern, walk, repeat) ==
  LET from == CursorPos(cursor)
      to   == IF from + walk >= TotalKeys THEN TotalKeys ELSE from + walk
      back == IF repeat >= from THEN 1 ELSE from + 1 - repeat
  IN [newCursor   |-> IF to = TotalKeys THEN "0" ELSE ToString(to),
      scannedKeys |-> MatchingKeys(pattern, back, to)]

Range(seq) == {seq[i] : i \in 1..Len(seq)}

\* Array.from(new Set(keys)) without the Set: the keys as they are
Unique_Identity(keys) == keys

\* Array.from(new Set(keys)): the first occurrence of every key, in order
\* (computed by halves: the keys of the second half that the first half
\* does not hold follow the first half's)
RECURSIVE Unique(_)
Unique(keys) ==
  IF Len(keys) <= 1 THEN keys
  ELSE LET half  == Len(keys) \div 2
           left  == Unique(SubSeq(keys, 1, half))
           right == Unique(SubSeq(keys, half + 1, Len(keys)))
           seen  == Range(left)
       IN left \o SelectSeq(right, LAMBDA k : k \notin seen)

\* the request: pc is its position, walk and repeat describe the store
\* while the request runs, trips is the number of client.scan calls made,
\* failed the indices of the keys whose TYPE failed, the rest are the
\* handler's locals
IdleScan == [pc |-> "idle", walk |-> 0, repeat |-> 0, pattern |-> "*",
             cursor |-> "0", keys |-> <<>>, count |-> 0, uniqueKeys |-> <<>>,
             data |-> <<>>, trips |-> 0, failed |-> {}]

\* the handler up to its first client.scan: pattern, keys = [], cursor = "0",
\* count = 0.  The store's replies to this request walk `walk` keys each
\* and repeat `repeat` keys each (load and rehashing of the store do not
\* change while one request runs).
ScanStart(pattern, walk, repeat) ==
  /\ scan.pc \in {"idle", "done"}
  /\ scan' = [IdleScan EXCEPT !.pc = "scanning", !.walk = walk,
                              !.repeat = repeat,
                              !.pattern = PatternOrStar(pattern)]
  /\ UNCHANGED <<regVars, insVars, apiVars, out, extVars>>

\* one turn of the do-while loop, from the reply of client.scan on: push the
\* keys, count them, leave the loop at 1000 or at cursor "0"; after the loop
\* deduplicate and either answer [] or send the TYPE pipeline
ScanPage ==
  /\ scan.pc = "scanning"
  /\ LET reply  == ScanReply(scan.cursor, scan.pattern, scan.walk, scan.repeat)
         keys   == scan.keys \o reply.scannedKeys
         count  == scan.count + Len(reply.scannedKeys)
         more   == ~ (count >= HardCap) /\ reply.newCursor # "0"
         unique == Unique(keys)
     IN scan' =
          IF more
          THEN [scan EXCEPT !.cursor = reply.newCursor, !.keys = keys,
                            !.count = count, !.trips = scan.trips + 1]
          ELSE [scan EXCEPT !.cursor = reply.newCursor, !.keys = keys,
                            !.count = count, !.trips = scan.trips + 1,
                            !.uniqueKeys = unique,
                            !.pc = IF Len(unique) = 0 THEN "done" ELSE "typing"]
  /\ UNCHANGED <<regVars, insVars, apiVars, out, extVars>>

TypeResult_NoCheck(key, err) == "unknown"

\* typeRes && !typeRes[0] ? typeRes[1] : "unknown" (err: the TYPE of this
\* key failed)
TypeResult(key, err) == IF err THEN "unknown" ELSE TypeOf(key)

\* the reply of pipeline.exec(): a {key, type} per unique key, type "unknown"
\* for the keys whose TYPE failed (failed: the indices of those keys)
ScanTypes(failed) ==
  /\ scan.pc = "typing"
  /\ scan' = [scan EXCEPT
       !.pc = "done",
       !.failed = failed,
       !.data = [i \in 1..Len(scan.uniqueKeys) |->
                   [key  |-> scan.uniqueKeys[i],
                    type |-> TypeResult(scan.uniqueKeys[i], i \in failed)]]]
  /\ UNCHANGED <<regVars, insVars, apiVars, out, extVars>>

ScanInit == scan = IdleScan

ScanNext ==
  \/ \E pattern \in Patterns, walk \in {PageCount, PageCount + PageExtra},
       repeat \in {0, PageRepeat} : ScanStart(pattern, walk, repeat)
  \/ ScanPage
  \/ \E failed \in {{}, {1}, {2}} : ScanTypes(failed)

(***************************************************************************)
(* Value inspector: POST /api/value (index.ts), hash and set branches, and *)
(* the editor's load / load-more handlers that page through it.            *)
(*                                                                         *)
(* The entries of the key are numbered 1..N in the order in which the      *)
(* backend's HSCAN/SSCAN cursor walks them.  A key in hashtable encoding   *)
(* keeps them in buckets (store.buckets[b] entries in bucket b): a scan    *)
(* step returns whole buckets until it has COUNT entries, and its cursor   *)
(* is the decimal string of the number of buckets walked.  A key in        *)
(* listpack encoding returns all its entries in one step.                  *)
(***************************************************************************)
\* largest number of buckets of the key
MaxBuckets == 3

\* largest number of entries in one bucket
MaxChain == 2

\* Math.min(Math.floor(previewLimitRaw), 1000)
MaxPreviewLimit == 1000

\* the limit used when the request carries no valid previewLimit
DefaultPreviewLimit == 200

\* a JSON value of the request body that is absent, or a number num/den
NoRaw == [kind |-> "undefined", num |-> 0, den |-> 1]

Rat(num, den) == [kind |-> "number", num |-> num, den |-> den]

\* the previewLimit values the client may be built with
RawLimits == {NoRaw, Rat(1, 1), Rat(2, 1), Rat(5, 2)}

\* typeof previewLimitRaw === "number" && Number.isFinite(previewLimitRaw)
\*   && previewLimitRaw > 0 ? Math.min(Math.floor(previewLimitRaw), 1000) : 200
PreviewLimit(raw) ==
  IF raw.kind = "number" /\ raw.num > 0
  THEN LET floor == raw.num \div raw.den IN
       IF floor < MaxPreviewLimit THEN floor ELSE MaxPreviewLimit
  ELSE DefaultPreviewLimit

\* typeof cursorRaw === "string" && cursorRaw ? cursorRaw : "0"
CursorOrZero(cursorRaw) ==
  IF cursorRaw = Undefined \/ cursorRaw = "" THEN "0" ELSE cursorRaw

\* the shapes of the sequence of bucket sizes of a key
Layouts ==
  UNION {[1..n -> 0..MaxChain] : n \in 0..MaxBuckets}

\* number of entries in buckets 1..b
RECURSIVE EntriesUpTo(_, _)
EntriesUpTo(buckets, b) ==
  IF b = 0 THEN 0 ELSE EntriesUpTo(buckets, b - 1) + buckets[b]

\* HLEN / SCARD
Total(st) == EntriesUpTo(st.buckets, Len(st.buckets))

\* the value the hash holds for a field
ValueOf(field) == field + 100

\* the number of buckets a cursor stands for
BucketPos(st, cursor) ==
  CHOOSE p \in 0..Len(st.buckets) : ToString(p) = cursor

\* HSCAN/SSCAN key cursor COUNT count: [nextCursor, entries]
ScanStep(st, cursor, count) ==
  LET n    == Len(st.buckets)
      from == IF st.encoding = "listpack" THEN 0 ELSE BucketPos(st, cursor)
      enough == {t \in (from + 1)..n :
                   EntriesUpTo(st.buckets, t) - EntriesUpTo(st.buckets, from)
                     >= count}
      to   == IF st.encoding = "listpack" \/ enough = {} THEN n
              ELSE CHOOSE t \in enough : \A u \in enough : t <= u
      lo   == EntriesUpTo(st.buckets, from)
      hi   == EntriesUpTo(st.buckets, to)
  IN [nextCursor |-> IF to >= n THEN "0" ELSE ToString(to),
      entries    |-> [i \in 1..(hi - lo) |-> lo + i]]

\* the reply of HSCAN: field, value, field, value, ...
Flat(entries) ==
  [i \in 1..(2 * Len(entries)) |->
     IF i % 2 = 1 THEN entries[(i + 1) \div 2] ELSE ValueOf(entries[i \div 2])]

\* for (let i = 0; i < fields.length && pairs < previewLimit; i += 2)
\*   obj[fields[i]] = fields[i + 1]; pairs += 1
RECURSIVE HashPairs(_, _, _, _, _)
HashPairs(fields, i, pairs, previewLimit, obj) ==
  IF i < Len(fields) /\ pairs < previewLimit
  THEN HashPairs(fields, i + 2, pairs + 1, previewLimit,
                 [f \in DOMAIN obj \cup {fields[i + 1]} |->
                    IF f = fields[i + 1] THEN fields[i + 2] ELSE obj[f]])
  ELSE obj

EmptyObj == [f \in {} |-> 0]

Slice_Whole(members, previewLimit) == members

\* members.slice(0, previewLimit)
Slice(members, previewLimit) ==
  SubSeq(members, 1, IF Len(members) < previewLimit THEN Len(members)
                     ELSE previewLimit)

Truncated_CursorOnly(total, previewCount, nextCursor) == nextCursor # "0"

\* truncated: total > previewCount || nextCursor !== "0"
Truncated(total, previewCount, nextCursor) ==
  total > previewCount \/ nextCursor # "0"

\* the response to POST /api/value for a hash or set key
Inspect(st, cursorRaw, previewLimitRaw) ==
  LET previewLimit == PreviewLimit(previewLimitRaw)
      cursor       == CursorOrZero(cursorRaw)
      total        == Total(st)
      scanRes      == ScanStep(st, cursor, previewLimit)
      nextCursor   == scanRes.nextCursor
      obj          == HashPairs(Flat(scanRes.entries), 0, 0, previewLimit,
                                EmptyObj)
      previewMembers == Slice(scanRes.entries, previewLimit)
      previewCount == IF st.type = "hash" THEN Cardinality(DOMAIN obj)
                      ELSE Len(previewMembers)
  IN [type  |-> st.type,
      value |-> IF st.type = "hash" THEN obj ELSE previewMembers,
      meta  |-> [total        |-> total,
                 previewCount |-> previewCount,
                 truncated    |-> Truncated(total, previewCount,
                                            nextCursor),
                 cursor       |-> cursor,
                 nextCursor   |-> nextCursor]]

NoMeta == [total |-> 0, previewCount |-> 0, truncated |-> FALSE,
           cursor |-> "0", nextCursor |-> "0"]

NoResp == [type |-> "none", value |-> <<>>, meta |-> NoMeta]

EmptyView == [type |-> "none", hashRows |-> EmptyObj, setMembers |-> <<>>,
              hashNextCursor |-> "0", setNextCursor |-> "0",
              listItems |-> <<>>, listNextStart |-> 0, truncated |-> FALSE]

\* loadValue: the first request for the key (no cursor) and the editor
\* state set from its response
LoadValue ==
  /\ view.type = "none"
  /\ LET data == Inspect(store, Undefined, limitRaw) IN
     /\ resp' = data
     /\ view' =
          IF data.type = "hash"
          THEN [EmptyView EXCEPT !.type = "hash", !.hashRows = data.value,
                                 !.hashNextCursor = data.meta.nextCursor]
          ELSE [EmptyView EXCEPT !.type = "set", !.setMembers = data.value,
                                 !.setNextCursor = data.meta.nextCursor]
  /\ UNCHANGED <<regVars, scan, store, limitRaw, apiVars, out, extVars>>

\* handleHashLoadMore: resume with hashNextCursor, merge the rows by field
HashLoadMore ==
  /\ view.type = "hash"
  /\ view.hashNextCursor # "0"
  /\ LET data == Inspect(store, view.hashNextCursor, limitRaw) IN
     /\ resp' = data
     /\ view' = [view EXCEPT
          !.hashNextCursor = data.meta.nextCursor,
          !.hashRows = [f \in DOMAIN view.hashRows \cup DOMAIN data.value |->
                          IF f \in DOMAIN data.value THEN data.value[f]
                          ELSE view.hashRows[f]]]
  /\ UNCHANGED <<regVars, scan, store, limitRaw, apiVars, out, extVars>>

\* handleSetLoadMore: resume with setNextCursor,
\* Array.from(new Set([...prev, ...members]))
SetLoadMore ==
  /\ view.type = "set"
  /\ view.setNextCursor # "0"
  /\ LET data == Inspect(store, view.setNextCursor, limitRaw) IN
     /\ resp' = data
     /\ view' = [view EXCEPT
          !.setNextCursor = data.meta.nextCursor,
          !.setMembers = Unique(view.setMembers \o data.value)]
  /\ UNCHANGED <<regVars, scan, store, limitRaw, apiVars, out, extVars>>

\* the key under inspection and the client's limit: any hash or set of the
\* bounded shapes, any of the limits
InsInit ==
  /\ store \in [type : {"hash", "set"}, encoding : {"listpack", "hashtable"},
                buckets : Layouts]
  /\ limitRaw \in RawLimits
  /\ resp = NoResp
  /\ view = EmptyView

InsNext ==
  \/ LoadValue
  \/ HashLoadMore
  \/ SetLoadMore

\* no key is under inspection
InsRest ==
  /\ store = [type |-> "hash", encoding |-> "listpack", buckets |-> <<>>]
  /\ limitRaw = NoRaw
  /\ resp = NoResp
  /\ view = EmptyView

(***************************************************************************)
(* Business handlers of index.ts working on one key: POST /api/value for   *)
(* strings, lists and absent keys, and the mutation endpoints.  Each       *)
(* handler is one step: validation, getConnection, the commands it sends   *)
(* in order, the response.  The Session the handler asks for is either     *)
(* handed over by the registry or getConnection throws.                    *)
(***************************************************************************)
\* longest list the model lets the key hold
MaxList == 3

\* most markers of POST /api/list/del-at that backend failures leave behind
\* in the list
MaxMarkers == 1

\* the key every request of the model names
TheKey == "k"

\* element values that requests write
Values == {"a", "b"}

\* a string field of a request body: absent, a string, or a JSON value of
\* another type
JAbsent == [kind |-> "undefined", s |-> "", h |-> EmptyObj]

JStr(s) == [kind |-> "string", s |-> s, h |-> EmptyObj]

JNumber == [kind |-> "number", s |-> "", h |-> EmptyObj]

\* a JSON object whose members are the strings of h
JObject(h) == [kind |-> "object", s |-> "", h |-> h]

\* a number field of a request body that holds a string instead
NotNumber == [kind |-> "string", num |-> 0, den |-> 1]

\* an array field of a request body: absent, an array of strings, or an
\* array holding something that is not a string
NoArray == [kind |-> "undefined", a |-> <<>>]

StrArray(a) == [kind |-> "array", a |-> a]

MixedArray == [kind |-> "mixed", a |-> <<>>]

Falsy_AbsentOnly(j) == j.kind = "undefined"

\* !x of a string field
Falsy(j) == j.kind = "undefined" \/ (j.kind = "string" /\ j.s = "")

\* typeof x === "number" && Number.isInteger(x)
IsInteger(raw) == raw.kind = "number" /\ raw.num % raw.den = 0

\* typeof ttl === "number" && ttl > 0
PositiveNumber(raw) == raw.kind = "number" /\ raw.num > 0

\* the key as the backend holds it: its type, its string value (hll: the
\* string is a HyperLogLog of elems), its list, its hash, its expiry in
\* seconds (-1: none)
NoKey == [type |-> "none", str |-> "", hll |-> FALSE, elems |-> {},
          list |-> <<>>, hash |-> EmptyObj, ttl |-> -1]

\* a command sent on the Session, with its string, number, array and
\* object arguments
Cmd(op, s, n, a, h) ==
  [op |-> op, s |-> s, n |-> n, m |-> 0, a |-> a, h |-> h]

\* a command that takes the key only
Cmd0(op) == Cmd(op, "", 0, <<>>, EmptyObj)

\* the log entry of redisManager.getConnection
GetConnection == Cmd0("getConnection")

\* position of a list index counted as Redis counts it (negative: from the
\* tail), 0 when out of range
ListPos(list, index) ==
  LET p == IF index >= 0 THEN index + 1 ELSE Len(list) + index + 1
  IN IF p \in 1..Len(list) THEN p ELSE 0

\* the list without its element at position p
RemoveAt(list, p) ==
  [i \in 1..(Len(list) - 1) |-> IF i < p THEN list[i] ELSE list[i + 1]]

\* LREM key 1 value: the list without the first element equal to value
LRemFirst(list, value) ==
  LET hits == {i \in 1..Len(list) : list[i] = value}
  IN IF hits = {} THEN list
     ELSE RemoveAt(list, CHOOSE i \in hits : \A j \in hits : i <= j)

\* LRANGE key start stop for start >= 0 (a negative stop counts from the
\* tail: -1 is the last element)
LRange(list, start, stop) ==
  LET to   == IF stop < 0 THEN Len(list) + stop ELSE stop
      last == IF to < Len(list) - 1 THEN to ELSE Len(list) - 1
  IN IF start > last THEN <<>> ELSE SubSeq(list, start + 1, last + 1)

\* the key after its list became l (Redis deletes a list that became empty)
WithList(k, l) ==
  IF l = <<>> THEN NoKey ELSE [k EXCEPT !.type = "list", !.list = l]

Reverse(a) == [i \in 1..Len(a) |-> a[Len(a) + 1 - i]]

\* the string a HyperLogLog key holds
HllString == "HYLL"

\* one write command executed by the backend: whether it was accepted, and
\* the key afterwards
Exec(k, cmd) ==
  LET Ok(k2) == [ok |-> TRUE, kv |-> k2]
      Err    == [ok |-> FALSE, kv |-> k]
  IN
  CASE cmd.op = "SET" ->
         Ok([NoKey EXCEPT !.type = "string", !.str = cmd.s,
                          !.ttl = IF cmd.n > 0 THEN cmd.n ELSE -1])
    [] cmd.op = "DEL" -> Ok(IF cmd.s = TheKey THEN NoKey ELSE k)
    [] cmd.op = "PFCOUNT" ->
         IF k.type = "none" \/ (k.type = "string" /\ k.hll) THEN Ok(k) ELSE Err
    [] cmd.op = "STRLEN" ->
         IF k.type \in {"none", "string"} THEN Ok(k) ELSE Err
    [] cmd.op = "EXPIRE" ->
         Ok(IF k.type = "none" THEN k ELSE [k EXCEPT !.ttl = cmd.n])
    [] cmd.op = "HSET" ->
         IF k.type \in {"none", "hash"} /\ DOMAIN cmd.h # {}
         THEN Ok([k EXCEPT !.type = "hash",
                           !.hash = [f \in DOMAIN k.hash \cup DOMAIN cmd.h |->
                                       IF f \in DOMAIN cmd.h THEN cmd.h[f]
                                       ELSE k.hash[f]]])
         ELSE Err
    [] cmd.op = "LSET" ->
         IF k.type = "list" /\ ListPos(k.list, cmd.n) # 0
         THEN Ok([k EXCEPT !.list[ListPos(k.list, cmd.n)] = cmd.s])
         ELSE Err
    [] cmd.op = "LREM" /\ cmd.n = 1 ->
         IF k.type = "list" THEN Ok(WithList(k, LRemFirst(k.list, cmd.s)))
         ELSE IF k.type = "none" THEN Ok(k)
         ELSE Err
    [] cmd.op = "RPUSH" ->
         IF k.type \in {"none", "list"} /\ cmd.a # <<>>
         THEN Ok(WithList(k, k.list \o cmd.a))
         ELSE Err
    [] cmd.op = "LPUSH" ->
         IF k.type \in {"none", "list"} /\ cmd.a # <<>>
         THEN Ok(WithList(k, Reverse(cmd.a) \o k.list))
         ELSE Err
    [] cmd.op = "PFADD" ->
         IF k.type = "none" \/ (k.type = "string" /\ k.hll)
         THEN Ok([k EXCEPT !.type = "string", !.hll = TRUE,
                           !.str = HllString,
                           !.elems = k.elems \cup Range(cmd.a)])
         ELSE Err
    [] OTHER -> Err

\* the commands of a handler sent one after the other until one is
\* rejected; failAt is the command that the backend fails for a reason of
\* its own (0: none).  Yields the key, the commands sent and whether all
\* were accepted.
RECURSIVE Run(_, _, _, _, _)
Run(k, cmds, i, failAt, sent) ==
  IF i > Len(cmds) THEN [kv |-> k, log |-> sent, ok |-> TRUE]
  ELSE LET r == IF i = failAt THEN [ok |-> FALSE, kv |-> k]
                ELSE Exec(k, cmds[i])
       IN IF r.ok THEN Run(r.kv, cmds, i + 1, failAt, Append(sent, cmds[i]))
          ELSE [kv |-> r.kv, log |-> Append(sent, cmds[i]), ok |-> FALSE]

\* the connection id the requests carry
TheConnection == "c1"

\* a request body; the fields an endpoint does not read are absent
NoBody == [connectionId |-> JAbsent, key |-> JAbsent, type |-> JAbsent,
           value |-> JAbsent, ttl |-> NoRaw, index |-> NoRaw,
           values |-> NoArray, elements |-> NoArray, direction |-> JAbsent,
           previewLimit |-> NoRaw, start |-> NoRaw]

\* a body that names the connection and the key
KeyBody == [NoBody EXCEPT !.connectionId = JStr(TheConnection),
                          !.key = JStr(TheKey)]

\* no fault: getConnection returns a Session and the backend fails no
\* command for a reason of its own
NoFault == <<TRUE, 0>>

\* no request: a request is its path, its body, the fault that meets it
\* (whether getConnection returns a Session, and the command that the
\* backend fails) and, for /api/value, the probes that the backend fails
\* while it is answered
NoReq == [path |-> "", body |-> NoBody, fault |-> NoFault,
          probeFails |-> {}]

\* null of a nullable number of a response
Null == -1

\* a response value: null, a string or an array of strings
NullValue == [kind |-> "null", s |-> "", a |-> <<>>]

StrValue(s) == [kind |-> "string", s |-> s, a |-> <<>>]

ArrValue(a) == [kind |-> "array", s |-> "", a |-> a]

\* the meta object of a /api/value response: the names of the members
\* it has (none: meta is undefined) and their values
NoApiMeta == [fields |-> {}, total |-> 0, previewCount |-> 0,
              truncated |-> FALSE, start |-> 0, end |-> 0, count |-> 0,
              bytes |-> 0, hllBytes |-> 0, memoryBytes |-> Null]

\* no response sent yet
NoRes == [status |-> 0, success |-> FALSE, message |-> "", type |-> "",
          value |-> NullValue, ttl |-> 0, meta |-> NoApiMeta,
          changed |-> FALSE, count |-> 0, bytes |-> 0]

\* res.json({ success: true, ... })
Success == [NoRes EXCEPT !.status = 200, !.success = TRUE]

\* res.status(500).json({ success: false, message: error.message })
Failure(message) == [NoRes EXCEPT !.status = 500, !.message = message]

\* the message of an error thrown by getConnection or by a command
BackendError == "backend error"

GetConnectionId_Unchecked(body) == ""

\* getConnectionId: the error it throws, "" when it returns the id
GetConnectionId(body) ==
  IF Falsy(body.connectionId) THEN "Connection ID is required" ELSE ""

\* MEMORY USAGE key: nil for an absent key
MemoryUsage(k) ==
  IF k.type = "none" THEN Null ELSE 56 + Len(k.str) + Len(k.list)

\* TTL key
Ttl(k) == IF k.type = "none" THEN -2 ELSE k.ttl

ListStart_Zero(raw) == 0

\* listStart of POST /api/value
ListStart(raw) ==
  IF raw.kind = "number" /\ IsInteger(raw) /\ raw.num >= 0
  THEN raw.num \div raw.den ELSE 0

ListTruncated_NoStart(listStart, previewCount, total) == previewCount < total

\* truncated: listStart + previewCount < total
ListTruncated(listStart, previewCount, total) ==
  listStart + previewCount < total

PfCount_NonEmpty(k) == IF k.elems = {} THEN 0 ELSE 1

\* PFCOUNT key, at the cardinalities of the model
PfCount(k) == Cardinality(k.elems)

\* STRLEN key
StrLen(k) == Len(k.str)

PfCountOk_Always(k, fails) == TRUE

\* whether await client.pfcount(key) returns: the string is a HyperLogLog
\* and the backend does not fail the command
PfCountOk(k, fails) == k.hll /\ "PFCOUNT" \notin fails

StringBranchType_AfterCount(pfOk, lenOk) ==
  IF pfOk THEN "hyperloglog" ELSE "string"

\* the type the string branch reports: reassigned after both probes
\* returned, left as TYPE gave it when either threw
StringBranchType(pfOk, lenOk) ==
  IF pfOk /\ lenOk THEN "hyperloglog" ELSE "string"

KeyType_NoneAsString(k) == IF k.type = "none" THEN "string" ELSE k.type

\* TYPE key: "none" for an absent key
KeyType(k) == k.type

\* POST /api/value for an absent key, a string or a list: the response and
\* what the handler did.  connected: getConnection returns a Session;
\* fails: the commands among MEMORY, PFCOUNT and STRLEN that the backend
\* fails for a reason of its own.
ValueHandler(k, body, connected, fails) ==
  LET previewLimit == PreviewLimit(body.previewLimit)
      listStart    == ListStart(body.start)
      noId         == GetConnectionId(body)
      memoryBytes  == IF "MEMORY" \in fails THEN Null ELSE MemoryUsage(k)
      head         == <<GetConnection, Cmd0("TYPE"), Cmd0("TTL"),
                        Cmd0("MEMORY")>>
      onlyMemory   == [NoApiMeta EXCEPT !.fields = {"memoryBytes"},
                                        !.memoryBytes = memoryBytes]
      base         == [Success EXCEPT !.type = KeyType(k), !.ttl = Ttl(k)]
  IN
  IF noId # "" THEN [res |-> Failure(noId), log |-> <<>>]
  ELSE IF Falsy(body.key)
  THEN [res |-> Failure("Key is required"), log |-> <<>>]
  ELSE IF ~ connected
  THEN [res |-> Failure(BackendError), log |-> <<GetConnection>>]
  ELSE IF KeyType(k) = "string" THEN
    LET pfOk  == PfCountOk(k, fails)
        lenOk == "STRLEN" \notin fails
        sent  == head \o <<Cmd0("GET"), Cmd0("PFCOUNT")>>
                      \o (IF pfOk THEN <<Cmd0("STRLEN")>> ELSE <<>>)
    IN IF pfOk /\ lenOk
       THEN [res |-> [base EXCEPT
                        !.type = StringBranchType(pfOk, lenOk),
                        !.value = NullValue,
                        !.meta = [NoApiMeta EXCEPT
                           !.fields = {"count", "bytes", "hllBytes",
                                       "memoryBytes"},
                           !.count = PfCount(k),
                           !.bytes = StrLen(k),
                           !.hllBytes = StrLen(k),
                           !.memoryBytes = memoryBytes]],
             log |-> sent]
       ELSE [res |-> [base EXCEPT
                        !.type = StringBranchType(pfOk, lenOk),
                        !.value = StrValue(k.str),
                        \* if (!meta && memoryBytes !== null)
                        !.meta = IF memoryBytes # Null THEN onlyMemory
                                 ELSE NoApiMeta],
             log |-> sent]
  ELSE IF KeyType(k) = "list" THEN
    LET total        == Len(k.list)
        end          == listStart + previewLimit - 1
        items        == LRange(k.list, listStart, end)
        previewCount == Len(items)
    IN [res |-> [base EXCEPT
                   !.value = ArrValue(items),
                   !.meta = [NoApiMeta EXCEPT
                      !.fields = {"total", "previewCount", "truncated",
                                  "start", "end", "memoryBytes"},
                      !.total = total,
                      !.previewCount = previewCount,
                      !.truncated = ListTruncated(listStart, previewCount,
                                                  total),
                      !.start = listStart,
                      !.end = listStart + previewCount - 1,
                      !.memoryBytes = memoryBytes]],
        log |-> head \o <<Cmd0("LLEN"),
                          [Cmd0("LRANGE") EXCEPT !.n = listStart,
                                                 !.m = end]>>]
  ELSE [res |-> [base EXCEPT !.value = NullValue, !.meta = onlyMemory],
        log |-> head]

\* a request refused before getConnection
Reject(k, message) == [res |-> Failure(message), log |-> <<>>, kv |-> k]

\* a request refused after getConnection returned the Session
RejectLate(k, message) ==
  [res |-> Failure(message), log |-> <<GetConnection>>, kv |-> k]

\* a request that passed validation: getConnection, the commands, the
\* response
Mutate(k, cmds, connected, failAt) ==
  IF ~ connected THEN RejectLate(k, BackendError)
  ELSE LET r == Run(k, cmds, 1, failAt, <<>>) IN
       [res |-> IF r.ok THEN Success ELSE Failure(BackendError),
        log |-> <<GetConnection>> \o r.log,
        kv  |-> r.kv]

\* if (typeof ttl === "number" && ttl > 0) await client.expire(key, ttl)
ExpireIfTtl(ttl) ==
  IF PositiveNumber(ttl)
  THEN <<Cmd("EXPIRE", "", ttl.num \div ttl.den, <<>>, EmptyObj)>>
  ELSE <<>>

\* typeof v === "string" of an array field's elements
IsStringArray(arr) == arr.kind = "array"

\* POST /api/set (types string and hash, and a type it does not support)
SetHandler(k, body, connected, failAt) ==
  LET noId == GetConnectionId(body)
      ttl  == body.ttl
      \* ttl && ttl > 0
      hasTtl == ttl.kind # "undefined" /\ ttl.num > 0
      seconds == ttl.num \div ttl.den
  IN
  IF noId # "" THEN Reject(k, noId)
  ELSE IF Falsy(body.key) \/ Falsy(body.type)
  THEN Reject(k, "Key and Type are required")
  ELSE IF ~ connected THEN RejectLate(k, BackendError)
  ELSE IF body.type.s = "string" THEN
    IF body.value.kind # "string"
    THEN RejectLate(k, "Value must be string for string type")
    ELSE Mutate(k, <<Cmd("SET", body.value.s,
                         IF hasTtl THEN seconds ELSE 0, <<>>, EmptyObj)>>,
                connected, failAt)
  ELSE IF body.type.s = "hash" THEN
    IF body.value.kind # "object"
    THEN RejectLate(k, "Value must be object for hash type")
    ELSE Mutate(k, <<Cmd("HSET", "", 0, <<>>, body.value.h)>> \o
                   (IF hasTtl
                    THEN <<Cmd("EXPIRE", "", seconds, <<>>, EmptyObj)>>
                    ELSE <<>>),
                connected, failAt)
  ELSE RejectLate(k, "Setting type is not yet supported in this demo")

\* POST /api/delete
DeleteHandler(k, body, connected, failAt) ==
  LET noId == GetConnectionId(body)
      \* an undefined argument goes out as the empty string
      name == IF body.key.kind = "string" THEN body.key.s ELSE ""
  IN
  IF noId # "" THEN Reject(k, noId)
  ELSE Mutate(k, <<Cmd("DEL", name, 0, <<>>, EmptyObj)>>, connected, failAt)

\* POST /api/hll/add
HllAddHandler(k, body, connected, failAt) ==
  LET noId == GetConnectionId(body)
      r    == Mutate(k, <<Cmd("PFADD", "", 0, body.elements.a, EmptyObj)>>
                        \o ExpireIfTtl(body.ttl)
                        \o <<Cmd0("PFCOUNT"), Cmd0("STRLEN")>>,
                     connected, failAt)
  IN
  IF noId # "" THEN Reject(k, noId)
  ELSE IF Falsy(body.key) THEN Reject(k, "Key is required")
  ELSE IF ~ IsStringArray(body.elements)
  THEN Reject(k, "Elements must be a string array")
  ELSE IF r.res.success
  THEN [r EXCEPT !.res.changed = (r.kv.elems # k.elems \/ k.type = "none"),
                 !.res.count = PfCount(r.kv),
                 !.res.bytes = StrLen(r.kv)]
  ELSE r

\* POST /api/list/push
ListPushHandler(k, body, connected, failAt) ==
  LET noId == GetConnectionId(body)
      dir  == IF body.direction = JStr("left") THEN "left" ELSE "right"
  IN
  IF noId # "" THEN Reject(k, noId)
  ELSE IF Falsy(body.key) THEN Reject(k, "Key is required")
  ELSE IF ~ IsStringArray(body.values)
  THEN Reject(k, "Values must be a string array")
  ELSE Mutate(k, <<Cmd(IF dir = "left" THEN "LPUSH" ELSE "RPUSH", "", 0,
                       body.values.a, EmptyObj)>>
                 \o ExpireIfTtl(body.ttl),
              connected, failAt)

\* POST /api/list/set-at
ListSetAtHandler(k, body, connected, failAt) ==
  LET noId == GetConnectionId(body) IN
  IF noId # "" THEN Reject(k, noId)
  ELSE IF Falsy(body.key) THEN Reject(k, "Key is required")
  ELSE IF ~ IsInteger(body.index) THEN Reject(k, "Index must be integer")
  ELSE IF body.value.kind # "string" THEN Reject(k, "Value must be string")
  ELSE Mutate(k, <<Cmd("LSET", body.value.s, body.index.num \div body.index.den,
                       <<>>, EmptyObj)>>,
              connected, failAt)

\* a marker of POST /api/list/del-at, by the uuid in it
MarkerOf(uuid) == "__redis_ui_del__:" \o ToString(uuid)

Marker_Reused(k) == MarkerOf(1)

\* `__redis_ui_del__:${uuidv4()}`: a uuid nothing has used before
Marker(k) ==
  MarkerOf(CHOOSE u \in 1..(Len(k.list) + 1) :
             /\ \A i \in 1..Len(k.list) : k.list[i] # MarkerOf(u)
             /\ \A v \in 1..(u - 1) :
                  \E i \in 1..Len(k.list) : k.list[i] = MarkerOf(v))

\* POST /api/list/del-at
ListDelAtHandler(k, body, connected, failAt) ==
  LET noId   == GetConnectionId(body)
      marker == Marker(k)
      index  == body.index.num \div body.index.den
  IN
  IF noId # "" THEN Reject(k, noId)
  ELSE IF Falsy(body.key) THEN Reject(k, "Key is required")
  ELSE IF ~ IsInteger(body.index) THEN Reject(k, "Index must be integer")
  ELSE Mutate(k, <<Cmd("LSET", marker, index, <<>>, EmptyObj),
                   Cmd("LREM", marker, 1, <<>>, EmptyObj)>>,
              connected, failAt)

\* the commands whose failure POST /api/value swallows
Probes == {"MEMORY", "PFCOUNT", "STRLEN"}

\* the previewLimit fields the requests carry: absent, not a number, zero,
\* negative, fractional, whole, above the cap
LimitRaws ==
  {NoRaw, NotNumber, Rat(0, 1), Rat(-1, 1), Rat(1, 2), Rat(1, 1), Rat(2, 1),
   Rat(5, 2), Rat(MaxPreviewLimit + 1, 1)}

\* the start fields the requests carry
StartRaws ==
  {NoRaw, Rat(-1, 1), Rat(1, 2), Rat(0, 1), Rat(1, 1), Rat(MaxList, 1)}

\* the index fields the requests carry
IndexRaws ==
  {NoRaw, Rat(1, 2), Rat(-1, 1), Rat(0, 1), Rat(1, 1), Rat(MaxList, 1)}

\* the ttl fields the requests carry
TtlRaws == {NoRaw, Rat(60, 1)}

\* bodies that lack the connection id or the key
BadBodies ==
  {[KeyBody EXCEPT !.connectionId = JAbsent],
   [KeyBody EXCEPT !.connectionId = JAbsent, !.key = JAbsent],
   [KeyBody EXCEPT !.key = JAbsent],
   [KeyBody EXCEPT !.key = JStr("")]}

ValueBodies ==
  {[KeyBody EXCEPT !.previewLimit = p, !.start = s] :
     p \in LimitRaws, s \in StartRaws} \cup BadBodies

SetBodies ==
  {[KeyBody EXCEPT !.type = t, !.value = v, !.ttl = ttl] :
     t \in {JAbsent, JStr("string"), JStr("hash"), JStr("zset")},
     v \in {JAbsent, JNumber, JStr("a"), JObject([f1 |-> "a"]),
            JObject([f2 |-> "b"])},
     ttl \in TtlRaws} \cup BadBodies

DeleteBodies == {KeyBody} \cup BadBodies

HllAddBodies ==
  {[KeyBody EXCEPT !.elements = e, !.ttl = ttl] :
     e \in {NoArray, MixedArray, StrArray(<<>>), StrArray(<<"a">>),
            StrArray(<<"a", "b", "a">>)},
     ttl \in TtlRaws} \cup BadBodies

ListPushBodies ==
  {[KeyBody EXCEPT !.values = v, !.direction = d, !.ttl = ttl] :
     v \in {NoArray, MixedArray, StrArray(<<"a">>), StrArray(<<"b">>),
            StrArray(<<"a", "b">>)},
     d \in {JAbsent, JStr("left")},
     ttl \in TtlRaws} \cup BadBodies

ListSetAtBodies ==
  {[KeyBody EXCEPT !.index = i, !.value = v, !.ttl = ttl] :
     i \in IndexRaws, v \in {JAbsent, JStr("a"), JStr("b")},
     ttl \in TtlRaws} \cup BadBodies

ListDelAtBodies ==
  {[KeyBody EXCEPT !.index = i, !.ttl = ttl] :
     i \in IndexRaws, ttl \in TtlRaws} \cup BadBodies

\* most commands one handler sends
MaxCmds == 4

\* the backend failures a request may meet: getConnection throws, or it
\* returns the Session and command failAt fails (0: none)
Faults == {<<FALSE, 0>>} \cup {<<TRUE, f>> : f \in 0..MaxCmds}

\* one mutation request answered; a fault meets the request only where
\* the handler gets that far: getConnection is called, the command is sent
Answer(path, body, fault, r) ==
  /\ req = NoReq
  /\ ~ fault[1] => r.log = <<GetConnection>>
  /\ fault[2] # 0 => Len(r.log) = fault[2] + 1 /\ ~ r.res.success
  /\ req' = [path |-> path, body |-> body, fault |-> fault,
             probeFails |-> {}]
  /\ kv' = r.kv
  /\ log' = r.log
  /\ res' = r.res
  /\ UNCHANGED <<regVars, scan, insVars, out, extVars>>

\* hash keys are inspected page by page in LoadValue, HashLoadMore
PostValue ==
  /\ req = NoReq
  /\ kv.type \in {"none", "string", "list"}
  /\ \E body \in ValueBodies, connected \in BOOLEAN, fails \in SUBSET Probes :
       LET r == ValueHandler(kv, body, connected, fails) IN
       \* only probes that the handler gets to send can fail
       /\ fails # {} =>
            /\ connected
            /\ body \notin BadBodies
            /\ kv.type = "string" \/ fails = {"MEMORY"}
       /\ ~ connected => r.log = <<GetConnection>>
       /\ req' = [path |-> "/api/value", body |-> body,
                  fault |-> <<connected, 0>>, probeFails |-> fails]
       /\ log' = r.log
       /\ res' = r.res
  /\ UNCHANGED <<kv, regVars, scan, insVars, out, extVars>>

PostSet ==
  \E body \in SetBodies, fault \in Faults :
    Answer("/api/set", body, fault, SetHandler(kv, body, fault[1], fault[2]))

PostDelete ==
  \E body \in DeleteBodies, fault \in Faults :
    Answer("/api/delete", body, fault,
           DeleteHandler(kv, body, fault[1], fault[2]))

PostHllAdd ==
  \E body \in HllAddBodies, fault \in Faults :
    Answer("/api/hll/add", body, fault,
           HllAddHandler(kv, body, fault[1], fault[2]))

PostListPush ==
  \E body \in ListPushBodies, fault \in Faults :
    /\ Len(kv.list) + Len(body.values.a) <= MaxList
    /\ Answer("/api/list/push", body, fault,
              ListPushHandler(kv, body, fault[1], fault[2]))

PostListSetAt ==
  \E body \in ListSetAtBodies, fault \in Faults :
    Answer("/api/list/set-at", body, fault,
           ListSetAtHandler(kv, body, fault[1], fault[2]))

PostListDelAt ==
  \E body \in ListDelAtBodies, fault \in Faults :
    /\ fault[2] = 2 =>
         Cardinality({i \in 1..Len(kv.list) : kv.list[i] \notin Values})
           < MaxMarkers
    /\ Answer("/api/list/del-at", body, fault,
           ListDelAtHandler(kv, body, fault[1], fault[2]))

\* no request answered yet, the key absent
ApiInit ==
  /\ req = NoReq
  /\ kv = NoKey
  /\ log = <<>>
  /\ res = NoRes

\* the response is out; the server waits for the next request
Done ==
  /\ req # NoReq
  /\ req' = NoReq
  /\ log' = <<>>
  /\ res' = NoRes
  /\ UNCHANGED <<kv, regVars, scan, insVars, out, extVars>>

ApiNext ==
  \/ PostValue
  \/ PostSet
  \/ PostDelete
  \/ PostHllAdd
  \/ PostListPush
  \/ PostListSetAt
  \/ PostListDelAt
  \/ Done

(***************************************************************************)
(* Connection-profile endpoints of index.ts: GET, POST, PUT and DELETE     *)
(* /api/connections.  A handler is one step; the Session it validates the  *)
(* configuration with is acquired as in the registry above, and here only  *)
(* whether getConnection and ping return matters.  An object of a response *)
(* is a record whose absent members are Undefined (JSON.stringify drops    *)
(* the members that are undefined).                                        *)
(***************************************************************************)
\* the PUT handlers that may await their connection check at the same time
Slots == {"put1", "put2"}

\* the passwords that request bodies carry
Passwords == {"pw1", "pw2"}

\* a body of POST and PUT: host, port, password and db as sent (host and
\* password Undefined: the member is absent)
ConfigBodies ==
  [host : {"h1", Undefined}, port : {6379}, password : Passwords \cup {Undefined},
   db : {NoNumber, Num(1)}]

\* no response sent yet; data: the objects of the response
NoOut == [status |-> 0, success |-> FALSE, message |-> "", data |-> {}]

\* a response object or a body without the createdAt member
NoStamp == 0

\* Date.now() at the requests of the model
Stamps == {1, 2}

\* a StoredConnection made of a configuration, a db and a createdAt
Stored(cfg, db, createdAt) ==
  [host |-> cfg.host, port |-> cfg.port, password |-> cfg.password,
   db |-> db, createdAt |-> createdAt]

\* an object of a response: a saved connection or a configuration, with its id
Entry(id, cfg) ==
  [id |-> id, host |-> cfg.host, port |-> cfg.port,
   password |-> cfg.password, db |-> cfg.db, createdAt |-> cfg.createdAt]

SafeConnection_Identity(entry) == entry

\* ({ password, ...rest }) => rest
SafeConnection(entry) == [entry EXCEPT !.password = Undefined]

\* !config.host || !config.port
InvalidConfig(body) == body.host = Undefined \/ body.host = "" \/ body.port = 0

\* res.json({ success: true, data })
OutSuccess(data) ==
  [status |-> 200, success |-> TRUE, message |-> "", data |-> data]

\* res.status(status).json({ success: false, message })
OutFailure(status, message) ==
  [status |-> status, success |-> FALSE, message |-> message, data |-> {}]

\* GET /api/connections
GetConnections ==
  /\ out' = OutSuccess({SafeConnection(Entry(id, fileStore[id])) :
                          id \in {i \in Ids : fileStore[i] # None}})
  /\ UNCHANGED <<regVars, scan, insVars, apiVars, extVars>>

\* POST /api/connections; ok: getConnection and ping return.  The new id
\* is one that no saved connection has.
PostConnections(body, ok) ==
  IF InvalidConfig(body)
  THEN /\ out' = OutFailure(500, "Invalid Redis Configuration")
       /\ UNCHANGED <<regVars, scan, insVars, apiVars, extVars>>
  ELSE IF ~ ok
  THEN /\ out' = OutFailure(500, BackendError)
       /\ UNCHANGED <<regVars, scan, insVars, apiVars, extVars>>
  ELSE \E id \in Ids, now \in Stamps :
         /\ fileStore[id] = None
         \* uuidv4(): an id that no handler holds either
         /\ \A s \in Slots : put[s].id # id
         /\ fileStore' = [fileStore EXCEPT ![id] = Stored(body, Num(0), now)]
         \* { id, ...config, password: undefined }
         /\ out' = OutSuccess({[Entry(id, Stored(body, body.db, NoStamp))
                                  EXCEPT !.password = Undefined]})
         /\ UNCHANGED <<clients, connections, call, scan, insVars,
                        apiVars, extVars>>

\* the members id and createdAt that the body of a PUT may carry
PutExtras == [id : {Undefined, "id2"}, createdAt : {NoStamp, 2}]

\* const updated = { ...existing, ...config, password, db,
\*                   id: existing.id, createdAt: existing.createdAt }
Updated(id, existing, body, extra) ==
  LET \* typeof config.password === "string" ? config.password
      \*                                     : existing.password
      password == IF body.password # Undefined THEN body.password
                  ELSE existing.password
      \* typeof config.db === "number" ? config.db : existing.db ?? 0
      db       == IF body.db.kind = "number" THEN body.db
                  ELSE IF existing.db.kind = "number" THEN existing.db
                  ELSE Num(0)
  IN [id |-> id,
      updated |-> Stored([body EXCEPT !.password = password], db,
                         existing.createdAt)]

\* no PUT handler in the slot
NoPut == [pc |-> "idle", id |-> Undefined, updated |-> None]

\* FileStore.update: replaces the connection saved under the id, if any
FileStoreUpdate(saved, id, connection) ==
  IF saved[id] # None THEN [saved EXCEPT ![id] = connection] ELSE saved

\* PUT /api/connections/:id up to await redisManager.getConnection
PutBegin(s, id, body, extra) ==
  LET existing == FileStoreGet(fileStore, id)
      u        == Updated(id, existing, body, extra)
  IN
  /\ put[s] = NoPut
  /\ IF InvalidConfig(body)
     THEN /\ out' = OutFailure(500, "Invalid Redis Configuration")
          /\ UNCHANGED put
     ELSE IF existing = None
     THEN /\ out' = OutFailure(404, "Not found")
          /\ UNCHANGED put
     ELSE /\ put' = [put EXCEPT ![s] = [pc |-> "awaiting", id |-> u.id,
                                        updated |-> u.updated]]
          /\ UNCHANGED out
  /\ UNCHANGED <<regVars, scan, insVars, apiVars, dbCase, dial, keyCase,
                 editor, loader>>

\* PUT /api/connections/:id from the await on; ok: getConnection and ping
\* return
PutFinish(s, ok) ==
  /\ put[s].pc = "awaiting"
  /\ put' = [put EXCEPT ![s] = NoPut]
  /\ IF ~ ok
     THEN /\ out' = OutFailure(500, BackendError)
          /\ UNCHANGED fileStore
     ELSE /\ fileStore' = FileStoreUpdate(fileStore, put[s].id,
                                          put[s].updated)
          \* const { password: _password, ...safe } = updated
          /\ out' = OutSuccess({SafeConnection(Entry(put[s].id,
                                                     put[s].updated))})
  /\ UNCHANGED <<clients, connections, call, scan, insVars, apiVars,
                 dbCase, dial, keyCase, editor, loader>>

\* DELETE /api/connections/:id
DeleteConnections(id) ==
  /\ fileStore' = [fileStore EXCEPT ![id] = None]
  /\ out' = OutSuccess({})
  /\ UNCHANGED <<clients, connections, call, scan, insVars, apiVars, extVars>>

PutRest == put = [s \in Slots |-> NoPut]

ProfilesInit == out = NoOut

ProfilesNext ==
  \/ GetConnections
  \/ \E body \in ConfigBodies, ok \in BOOLEAN : PostConnections(body, ok)
  \/ \E s \in Slots, id \in Ids, body \in ConfigBodies, extra \in PutExtras :
       PutBegin(s, id, body, extra)
  \/ \E s \in Slots, ok \in BOOLEAN : PutFinish(s, ok)
  \/ \E id \in Ids : DeleteConnections(id)

(***************************************************************************)
(* The database a request targets: getDbIndex (index.ts) and targetDb      *)
(* (redisManager.ts), from the db field of the request body to the         *)
(* database that the Session's client selects.                             *)
(***************************************************************************)
\* largest database index of the model
MaxDb == 3

\* parseInt of something that is no number
NaN == [kind |-> "nan", n |-> 0]

\* the db field of a request body: absent, null, a number, a string
NoDb == [kind |-> "undefined", n |-> 0, s |-> ""]

NullDb == [kind |-> "null", n |-> 0, s |-> ""]

NumDb(n) == [kind |-> "number", n |-> n, s |-> ""]

StrDb(s) == [kind |-> "string", n |-> 0, s |-> s]

\* the db fields of the model: absent, null, the numbers and the numeric
\* strings up to MaxDb, a string that is no number
DbFields ==
  {NoDb, NullDb, StrDb("abc")} \cup {NumDb(n) : n \in 0..MaxDb}
    \cup {StrDb(ToString(n)) : n \in 0..MaxDb}

\* the db member of a saved profile: absent or a number
ProfileDbs == {NoNumber} \cup {Num(n) : n \in 0..MaxDb}

\* parseInt(db) of a string
ParseInt(s) ==
  IF \E n \in 0..MaxDb : ToString(n) = s
  THEN Num(CHOOSE n \in 0..MaxDb : ToString(n) = s)
  ELSE NaN

\* getDbIndex: db !== undefined ? parseInt(db) : undefined
GetDbIndex(db) ==
  IF db.kind = "undefined" THEN NoNumber
  ELSE IF db.kind = "number" THEN Num(db.n)
  ELSE IF db.kind = "string" THEN ParseInt(db.s)
  ELSE NaN

\* the database the client of new Redis({db: targetDb}) selects: it sends
\* SELECT only for a db that is truthy, and is on database 0 otherwise
SelectedDb(targetDb) == IF targetDb.kind = "number" THEN targetDb.n ELSE 0

\* no request under way
NoDbCase == [pc |-> "idle", db |-> NoDb, profileDb |-> NoNumber,
             targetDb |-> NoNumber, selected |-> 0]

\* a business request with its db field arrives for a saved profile
DbRequest(db, profileDb) ==
  /\ dbCase.pc \in {"idle", "resolved"}
  /\ dbCase' = [NoDbCase EXCEPT !.pc = "asked", !.db = db,
                                !.profileDb = profileDb]
  /\ UNCHANGED <<regVars, scan, insVars, apiVars, out, dial, keyCase, put, editor, loader>>

\* getDbIndex(req), then getConnection up to new Redis({db: targetDb})
DbResolve ==
  /\ dbCase.pc = "asked"
  /\ LET targetDb == TargetDb([db |-> dbCase.profileDb],
                              GetDbIndex(dbCase.db))
     IN dbCase' = [dbCase EXCEPT !.pc = "resolved", !.targetDb = targetDb,
                                 !.selected = SelectedDb(targetDb)]
  /\ UNCHANGED <<regVars, scan, insVars, apiVars, out, dial, keyCase, put, editor, loader>>

DbRest == dbCase = NoDbCase

DbNext ==
  \/ \E db \in DbFields, profileDb \in ProfileDbs : DbRequest(db, profileDb)
  \/ DbResolve

(***************************************************************************)
(* A new client's first connection (redisManager.ts: new Redis with        *)
(* lazyConnect and retryStrategy, await client.connect(), the catch        *)
(* block).  dial.net says of every attempt whether the backend accepts     *)
(* it, refuses it or lets it time out.  When an attempt fails the client   *)
(* emits the error, which the handler of 'error' logs, and asks            *)
(* retryStrategy.  The promise of connect() is rejected at one of the      *)
(* failures, at the latest when the client gives up, and the catch block   *)
(* runs before the client's next timer.                                    *)
(***************************************************************************)
\* the attempts of one client that the model follows
MaxAttempts == 4

\* retryStrategy returned null
GiveUp == -1

RetryStrategy_Always(times) == 200

\* retryStrategy: (times) => times > 2 ? null : 200
RetryStrategy(times) == IF times > 2 THEN GiveUp ELSE 200

\* no getConnection under way
NoDial == [pc |-> "idle", status |-> "wait", attempt |-> 0, times |-> 0,
           retries |-> 0, delay |-> 0, logged |-> "",
           net |-> [a \in 1..MaxAttempts |-> "accept"]]

\* what the backend does with each attempt
Nets == [1..MaxAttempts -> {"accept", "refuse", "timeout"}]

\* new Redis({..., lazyConnect: true, retryStrategy}), client.connect()
DialStart(net) ==
  /\ dial.pc \in {"idle", "returned", "failed"}
  /\ dial' = [NoDial EXCEPT !.pc = "awaiting", !.status = "connecting",
                            !.attempt = 1, !.net = net]
  /\ UNCHANGED <<regVars, scan, insVars, apiVars, out, dbCase, keyCase, put, editor, loader>>

\* the attempt succeeds: await client.connect() returns,
\* connections.set(connectionKey, client), return client
DialSucceeds ==
  /\ dial.pc = "awaiting"
  /\ dial.status = "connecting"
  /\ dial.net[dial.attempt] = "accept"
  /\ dial' = [dial EXCEPT !.pc = "returned", !.status = "ready"]
  /\ UNCHANGED <<regVars, scan, insVars, apiVars, out, dbCase, keyCase, put, editor, loader>>

\* the attempt fails: the client asks retryStrategy with the number of
\* failures so far; rejected: the promise of connect() is rejected now,
\* and then the catch block disconnects the client and throws
DialFails(rejected) ==
  /\ dial.pc = "awaiting"
  /\ dial.status = "connecting"
  /\ dial.net[dial.attempt] # "accept"
  /\ LET times == dial.times + 1
         delay == RetryStrategy(times)
     IN /\ delay = GiveUp => rejected
        /\ dial' = [dial EXCEPT
              !.times = times,
              !.delay = delay,
              \* console.error(`Redis error (...): ${message}`)
              !.logged = IF dial.net[dial.attempt] = "refuse"
                         THEN "ECONNREFUSED" ELSE "ETIMEDOUT",
              !.status = IF rejected \/ delay = GiveUp THEN "end"
                         ELSE "reconnecting",
              !.pc = IF rejected THEN "failed" ELSE "awaiting"]
  /\ UNCHANGED <<regVars, scan, insVars, apiVars, out, dbCase, keyCase, put, editor, loader>>

\* the delay is over: the client connects again
DialRetry ==
  /\ dial.pc = "awaiting"
  /\ dial.status = "reconnecting"
  /\ dial.attempt < MaxAttempts
  /\ dial' = [dial EXCEPT !.status = "connecting",
                          !.attempt = dial.attempt + 1,
                          !.retries = dial.retries + 1]
  /\ UNCHANGED <<regVars, scan, insVars, apiVars, out, dbCase, keyCase, put, editor, loader>>

DialRest == dial = NoDial

DialNext ==
  \/ \E net \in Nets : DialStart(net)
  \/ DialSucceeds
  \/ \E rejected \in BOOLEAN : DialFails(rejected)
  \/ DialRetry

(***************************************************************************)
(* connectionKey of redisManager.ts over hosts and passwords that may      *)
(* hold the separator.                                                     *)
(***************************************************************************)
\* the parameter sets: host, port, password of the config and the target
\* db
ParamSets ==
  [host : {"h", "h:1"}, port : {1, 2}, password : {Undefined, "", "0:", "x"},
   db : {Num(0), Num(2)}]

\* nothing computed yet
NoKeyCase == [pc |-> "idle",
              a |-> [host |-> "h", port |-> 1, password |-> Undefined,
                     db |-> Num(0)],
              b |-> [host |-> "h", port |-> 1, password |-> Undefined,
                     db |-> Num(0)],
              keyA |-> "", keyB |-> ""]

\* two getConnection calls arrive with their parameter sets
KeyRequest(a, b) ==
  /\ keyCase.pc \in {"idle", "computed"}
  /\ keyCase' = [NoKeyCase EXCEPT !.pc = "asked", !.a = a, !.b = b]
  /\ UNCHANGED <<regVars, scan, insVars, apiVars, out, dbCase, dial, put, editor, loader>>

\* each call computes its connectionKey
KeyCompute ==
  /\ keyCase.pc = "asked"
  /\ keyCase' = [keyCase EXCEPT
       !.pc = "computed",
       !.keyA = ConnectionKey(keyCase.a, keyCase.a.db),
       !.keyB = ConnectionKey(keyCase.b, keyCase.b.db)]
  /\ UNCHANGED <<regVars, scan, insVars, apiVars, out, dbCase, dial, put, editor, loader>>

KeyRest == keyCase = NoKeyCase

KeyNext ==
  \/ \E a \in ParamSets, b \in ParamSets : KeyRequest(a, b)
  \/ KeyCompute

\* the specifications below at rest
(***************************************************************************)
(* The value editor (ValueEditor.tsx): the effect that runs when the       *)
(* selected key changes, and loadValue, whose responses arrive in any      *)
(* order.                                                                   *)
(***************************************************************************)
\* most loads of one key in flight at the same time
MaxLoads == 2

\* the keys the user selects: a string and a list
EditorKeys == {"A", "B"}

\* currentKey === null
NoKeyName == ""

\* the fields the editor shows
Fields(newKeyName, type, value, ttl, listNextStart) ==
  [newKeyName |-> newKeyName, type |-> type, value |-> value, ttl |-> ttl,
   listNextStart |-> listNextStart]

\* the fields as the effect resets them
Blank(key) == Fields(key, "string", "", -1, 0)

\* the fields after loadValue(key) applied the response: A is a string
\* that expires, B a list of two items without expiry
Loaded(key) ==
  IF key = "A" THEN Fields("A", "string", "va", 60, 0)
  ELSE Fields("B", "list", "[x,y]", -1, 2)

NoEditor == [currentKey |-> NoKeyName, shown |-> Blank(NoKeyName),
             loads |-> [k \in EditorKeys |-> 0],
             loadingKey |-> NoKeyName, isLoading |-> FALSE,
             toast |-> FALSE]

\* the user selects a key, or starts a new one (NoKeyName): the effect on
\* currentKey resets the fields and calls loadValue, which sets
\* loadingKeyRef and isLoading and sends the request
EditorSelect(key) ==
  /\ key # editor.currentKey
  /\ IF key = NoKeyName
     THEN editor' = [editor EXCEPT !.currentKey = key, !.shown = Blank(key),
                                   !.toast = FALSE]
     ELSE /\ editor.loads[key] < MaxLoads
          /\ editor' = [editor EXCEPT !.currentKey = key,
                                      !.shown = Blank(key),
                                      !.loads[key] = @ + 1,
                                      !.loadingKey = key,
                                      !.isLoading = TRUE,
                                      !.toast = FALSE]
  /\ UNCHANGED <<regVars, scan, insVars, apiVars, out, dbCase, dial,
                 keyCase, put, loader>>

\* a response of api.getValue arrives at the loadValue(key) that awaits
\* it; ok: it is a success
EditorArrive(key, ok) ==
  /\ editor.loads[key] > 0
  /\ editor' = [editor EXCEPT
                  !.loads[key] = @ - 1,
                  !.shown = IF ok THEN Loaded(key) ELSE @,
                  !.toast = IF ok THEN @ ELSE TRUE,
                  \* if (loadingKeyRef.current === key) setIsLoading(false)
                  !.isLoading = IF editor.loadingKey = key THEN FALSE
                                ELSE @]
  /\ UNCHANGED <<regVars, scan, insVars, apiVars, out, dbCase, dial,
                 keyCase, put, loader>>

EditorRest == editor = NoEditor

EditorNext ==
  \/ \E key \in EditorKeys \cup {NoKeyName} : EditorSelect(key)
  \/ \E key \in EditorKeys, ok \in BOOLEAN : EditorArrive(key, ok)

(***************************************************************************)
(* The connection list of the client (ConnectionManager.tsx, useStore.ts): *)
(* connectionsLoadStatus, the effect that fetches when it is "idle", and   *)
(* the fetches that handleSubmit and handleRemove start.                   *)
(***************************************************************************)
\* most fetches that the backend fails
MaxFailures == 2

\* the lists that GET /api/connections answers with
Lists_Connections == {{}, {"id1"}, {"id1", "id2"}}

StatusAfter_Swallow(ok, status) == IF ok THEN "loaded" ELSE status

\* connectionsLoadStatus after loadConnections: setConnections sets
\* "loaded", the catch sets "idle"
StatusAfter(ok, status) == IF ok THEN "loaded" ELSE "idle"

\* the store and the component after construction; fetches: the
\* loadConnections calls of the effect that await their response;
\* handler: where handleSubmit or handleRemove stands
NoLoader == [status |-> "idle", connections |-> {}, isLoading |-> FALSE,
             fetches |-> 0, handler |-> "idle", failures |-> 0,
             toasts |-> FALSE]

\* loadConnections after its await: the response is applied
Applied(l, ok, data) ==
  [l EXCEPT !.status = StatusAfter(ok, l.status),
            !.connections = IF ok THEN data ELSE @,
            !.failures = IF ok THEN @ ELSE @ + 1,
            !.toasts = IF ok THEN @ ELSE TRUE,
            !.isLoading = FALSE]

\* the effect on connectionsLoadStatus.  React runs it when it commits the
\* render that the change of the status caused, before the next click or
\* response is handled: the other steps wait while the effect is due.
EffectDue == loader.status = "idle"

LoaderEffect ==
  /\ loader.status = "idle"
  /\ loader' = [loader EXCEPT !.status = "loading", !.isLoading = TRUE,
                              !.fetches = @ + 1]
  /\ UNCHANGED <<regVars, scan, insVars, apiVars, out, dbCase, dial,
                 keyCase, put, editor>>

\* handleSubmit and handleRemove up to their first await
HandlerStart ==
  /\ ~ EffectDue
  /\ loader.handler = "idle"
  /\ loader' = [loader EXCEPT !.handler = "saving"]
  /\ UNCHANGED <<regVars, scan, insVars, apiVars, out, dbCase, dial,
                 keyCase, put, editor>>

\* api.saveConnection or api.deleteConnection returns: the handler sets
\* "loading" and calls loadConnections; or it throws
HandlerSaved(ok) ==
  /\ ~ EffectDue
  /\ loader.handler = "saving"
  /\ loader' = IF ok
               THEN [loader EXCEPT !.handler = "fetching",
                                   !.status = "loading",
                                   !.isLoading = TRUE]
               ELSE [loader EXCEPT !.handler = "idle", !.toasts = TRUE]
  /\ UNCHANGED <<regVars, scan, insVars, apiVars, out, dbCase, dial,
                 keyCase, put, editor>>

\* the backend answers a fetch that the effect started
EffectFetchEnd(ok, data) ==
  /\ ~ EffectDue
  /\ loader.fetches > 0
  /\ ~ ok => loader.failures < MaxFailures
  /\ loader' = [Applied(loader, ok, data) EXCEPT !.fetches = @ - 1]
  /\ UNCHANGED <<regVars, scan, insVars, apiVars, out, dbCase, dial,
                 keyCase, put, editor>>

\* the backend answers the fetch of the handler, which then returns
HandlerFetchEnd(ok, data) ==
  /\ ~ EffectDue
  /\ loader.handler = "fetching"
  /\ ~ ok => loader.failures < MaxFailures
  /\ loader' = [Applied(loader, ok, data) EXCEPT !.handler = "idle"]
  /\ UNCHANGED <<regVars, scan, insVars, apiVars, out, dbCase, dial,
                 keyCase, put, editor>>

\* the backend answers some fetch
FetchEnd ==
  \E ok \in BOOLEAN, data \in Lists_Connections :
    EffectFetchEnd(ok, data) \/ HandlerFetchEnd(ok, data)

LoaderRest == loader = NoLoader

LoaderNext ==
  \/ LoaderEffect
  \/ HandlerStart
  \/ \E ok \in BOOLEAN : HandlerSaved(ok)
  \/ \E ok \in BOOLEAN, data \in Lists_Connections : EffectFetchEnd(ok, data)
  \/ \E ok \in BOOLEAN, data \in Lists_Connections : HandlerFetchEnd(ok, data)

ExtRest ==
  /\ DbRest /\ DialRest /\ KeyRest
  /\ PutRest /\ EditorRest /\ LoaderRest

(***************************************************************************)
(* The editor paging through a list (ValueEditor.tsx: loadValue and        *)
(* handleListLoadMore) against POST /api/value.  The list is kv, the       *)
(* editor's previewLimit is limitRaw, nobody mutates the key.              *)
(***************************************************************************)
\* the previewLimit values of the editor: whole and fractional, within and
\* beyond the server's maximum
ListLimits == {Rat(1, 1), Rat(2, 1), Rat(5, 2), Rat(1001, 1)}

\* the lists of up to MaxList elements
Lists == UNION {[1..n -> Values] : n \in 1..MaxList}

\* api.getValue(activeConnection, key, {previewLimit, start}) answered
GetValue(body) ==
  LET r == ValueHandler(kv, body, TRUE, {}) IN
  [req |-> [path |-> "/api/value", body |-> body, fault |-> NoFault,
            probeFails |-> {}],
   log |-> r.log,
   res |-> r.res]

\* loadValue for a list: items, meta.truncated, setListNextStart(end + 1)
ListLoadValue ==
  /\ view.type = "none"
  /\ LET g == GetValue([KeyBody EXCEPT !.previewLimit = limitRaw]) IN
     /\ req' = g.req
     /\ log' = g.log
     /\ res' = g.res
     /\ view' = [EmptyView EXCEPT !.type = g.res.type,
                                  !.listItems = g.res.value.a,
                                  !.listNextStart = g.res.meta.end + 1,
                                  !.truncated = g.res.meta.truncated]
  /\ UNCHANGED <<regVars, scan, store, limitRaw, resp, kv, out, extVars>>

\* handleListLoadMore, called while the editor shows the list as
\* truncated: resume at listNextStart, append the items
ListLoadMore ==
  /\ view.type = "list"
  /\ view.truncated
  /\ ~ (view.listNextStart <= 0)
  /\ LET g == GetValue([KeyBody EXCEPT
                          !.previewLimit = limitRaw,
                          !.start = Rat(view.listNextStart, 1)]) IN
     /\ g.res.type = "list"
     /\ req' = g.req
     /\ log' = g.log
     /\ res' = g.res
     /\ view' = [view EXCEPT !.listItems = @ \o g.res.value.a,
                             !.listNextStart = g.res.meta.end + 1,
                             !.truncated = g.res.meta.truncated]
  /\ UNCHANGED <<regVars, scan, store, limitRaw, resp, kv, out, extVars>>

\* any list of the bounded lengths under the editor, any of the limits
ListPagingInit ==
  /\ RegInit
  /\ ScanInit
  /\ ProfilesInit
  /\ store = [type |-> "hash", encoding |-> "listpack", buckets |-> <<>>]
  /\ limitRaw \in ListLimits
  /\ resp = NoResp
  /\ view = EmptyView
  /\ req = NoReq
  /\ kv \in {[NoKey EXCEPT !.type = "list", !.list = l] : l \in Lists}
  /\ log = <<>>
  /\ res = NoRes
  /\ ExtRest

ListPagingNext ==
  \/ ListLoadValue
  \/ ListLoadMore

(***************************************************************************)
(* Specifications                                                          *)
(***************************************************************************)
\* every component at rest
Init ==
  RegInit /\ ScanInit /\ InsRest /\ ApiInit /\ ProfilesInit /\ ExtRest

Next ==
  \/ \E id \in Ids : FileStoreAdd(id, Profile(id))
  \/ \E id \in Ids : FileStoreRemove(id)
  \/ \E c \in Callers, arg \in ConfigOrIds, db \in DbArgs : Acquire(c, arg, db)
  \/ \E c \in Callers : ConnectResolve(c)
  \/ \E c \in Callers : ConnectReject(c)
  \/ \E c \in Callers : CallReturn(c)
  \/ \E s \in Registered : SocketDrop(s)
  \/ \E s \in Registered : SocketRetry(s)
  \/ \E s \in Registered : SocketConnect(s)
  \/ \E s \in Registered : SocketReady(s)

Spec == Init /\ [][Next]_vars

\* the scanner on its own (registry and inspector at rest)
SpecScan == Init /\ [][ScanNext]_vars

InspectInit ==
  RegInit /\ ScanInit /\ InsInit /\ ApiInit /\ ProfilesInit /\ ExtRest

\* the inspector and the editor paging through one key that nobody mutates
\* (registry and scanner at rest)
SpecInspect == InspectInit /\ [][InsNext]_vars

\* the business handlers answering requests for one key, one request at a
\* time (registry, scanner and inspector at rest)
SpecApi == Init /\ [][ApiNext]_vars

\* the connection-profile endpoints answering requests one at a time
\* (registry calls, scanner, inspector and business handlers at rest)
SpecProfiles == Init /\ [][ProfilesNext]_vars

\* requests with every db field, for profiles with every default db
SpecDb == Init /\ [][DbNext]_vars

\* connection keys of pairs of parameter sets
SpecKey == Init /\ [][KeyNext]_vars

SpecEditor == Init /\ [][EditorNext]_vars

\* React runs the effect, and the backend answers every fetch
SpecLoader ==
  /\ Init
  /\ [][LoaderNext]_vars
  /\ WF_vars(LoaderEffect)
  /\ WF_vars(FetchEnd)

\* new clients connecting to a backend that accepts or refuses each
\* attempt; the client and the handler take their next step as long as
\* they have one
SpecDial == Init /\ [][DialNext]_vars /\ WF_vars(DialNext)

\* the editor paging through one list that nobody mutates; the editor
\* takes its next step as long as it has one
SpecListPaging ==
  ListPagingInit /\ [][ListPagingNext]_vars /\ WF_vars(ListPagingNext)

(***************************************************************************)
(* Connection registry: properties (Spec)                                  *)
(***************************************************************************)
\* two password fields that name different credentials (an absent and an
\* empty password both mean "no credential")
DifferentPasswords(p, q) ==
  /\ p # q
  /\ ~ (p \in {Undefined, ""} /\ q \in {Undefined, ""})

\* two call slots hold requests for the same host, port and target db
SameEndpoint(a, b) ==
  /\ call[a].config.host = call[b].config.host
  /\ call[a].config.port = call[b].config.port
  /\ call[a].db = call[b].db

\* the composite key a client object was constructed for
KeyOfClient(s) == ConnectionKey(clients[s], clients[s].db)

\* C1: two acquire calls for the same composite key that are in flight
\* together (no Session for the key in the registry) share one connect
\* attempt: they wait for the same client object.
C1_SingleConnectAttempt ==
  \A a, b \in Callers :
    (/\ a # b
     /\ call[a].pc = "awaiting"
     /\ call[b].pc = "awaiting"
     /\ call[a].key = call[b].key)
    => call[a].client = call[b].client

\* C2: at most one Session that the registry created and has not
\* disconnected exists per composite key.
C2_OneSessionPerKey ==
  \A i, j \in 1..Len(clients) :
    (/\ i # j
     /\ clients[i].status # "end"
     /\ clients[j].status # "end")
    => KeyOfClient(i) # KeyOfClient(j)

\* C3: of two acquire calls with different connection identifiers whose
\* profiles resolve to the same host, port, target db and credential, the
\* second, made while the Session the first was given is ready, returns
\* that same Session and constructs no client.
C3_SharedAcrossIdentifiers ==
  [][\A a, b \in Callers :
       (/\ a # b
        /\ call[a].pc = "done"
        /\ clients[call[a].client].status = "ready"
        /\ call[b].pc = "idle"
        /\ call'[b].pc # "idle"
        /\ call'[b].config # None
        /\ call[a].arg.kind = "id"
        /\ call'[b].arg.kind = "id"
        /\ call'[b].arg.id # call[a].arg.id
        /\ call'[b].config.host = call[a].config.host
        /\ call'[b].config.port = call[a].config.port
        /\ call'[b].db = call[a].db
        /\ ~ DifferentPasswords(call'[b].config.password,
                                call[a].config.password))
       => (/\ call'[b].pc = "done"
           /\ call'[b].client = call[a].client
           /\ clients' = clients)]_vars

\* C4: two profiles with the same host, port and target db but different
\* passwords are never given the same Session.
C4_PasswordsNeverShare ==
  \A a, b \in Callers :
    (/\ a # b
     /\ call[a].pc = "done"
     /\ call[b].pc = "done"
     /\ SameEndpoint(a, b)
     /\ DifferentPasswords(call[a].config.password, call[b].config.password))
    => call[a].client # call[b].client

\* C4 witness: two calls for the same endpoint under different passwords
\* have both been given a Session.
C4_Witness ==
  \E a, b \in Callers :
    /\ a # b
    /\ call[a].pc = "done"
    /\ call[b].pc = "done"
    /\ SameEndpoint(a, b)
    /\ DifferentPasswords(call[a].config.password, call[b].config.password)
    /\ clients[call[a].client].status = "ready"
    /\ clients[call[b].client].status = "ready"

\* C5: an acquire whose identifier the profile store cannot resolve fails
\* with "not found", constructs no client and leaves the Session map alone.
C5_UnknownIdFails ==
  [][\A c \in Callers :
       (/\ call[c].pc = "idle"
        /\ call'[c].pc # "idle"
        /\ call'[c].arg.kind = "id"
        /\ fileStore[call'[c].arg.id] = None)
       => (/\ call'[c].pc = "failed"
           /\ call'[c].error = "NotFound"
           /\ clients' = clients
           /\ connections' = connections)]_vars

\* C5 witness: an acquire failed with "not found" for an identifier that
\* another call, still holding its Session, resolved before the profile was
\* deleted.
C5_Witness ==
  \E a, b \in Callers :
    /\ call[a].pc = "done"
    /\ call[b].pc = "failed"
    /\ call[b].error = "NotFound"
    /\ call[b].arg = call[a].arg
    /\ connections # [k \in {} |-> NoClient]

C7_NoDuplicateKeys ==
  scan.pc = "done" =>
    Cardinality({scan.data[i].key : i \in 1..Len(scan.data)}) = Len(scan.data)

\* C7 witness: a scan whose pages repeated keys has returned its list.
C7_Witness ==
  /\ scan.pc = "done"
  /\ Len(scan.data) > 0
  /\ Len(scan.keys) > Len(scan.data)

\* C8: a scan returns at most hardCap (1000) unique keys.
C8_AtMostHardCap ==
  scan.pc = "done" => Len(scan.data) <= HardCap

(***************************************************************************)
(* Value inspector: properties (SpecInspect)                               *)
(***************************************************************************)
\* the entries the editor has collected
Collected ==
  IF view.type = "hash" THEN DOMAIN view.hashRows ELSE Range(view.setMembers)

\* the editor has paged to the end: no cursor to resume with is left
PagingEnded ==
  /\ view.type # "none"
  /\ view.hashNextCursor = "0"
  /\ view.setNextCursor = "0"

\* C9: the resumed page that returns the last remaining entries of a key
\* with more entries than previewLimit has truncated = false (so a client
\* that resumes while truncated is true comes to a stop).
C9_LastPageNotTruncated ==
  (/\ PagingEnded
   /\ resp.meta.cursor # "0"
   /\ Total(store) > PreviewLimit(limitRaw)
   /\ Collected = 1..Total(store))
  => ~ resp.meta.truncated

\* C10: once the pages from cursor "0" on have been followed until nextCursor
\* is "0", the deduplicated union of their entries is the key's entry set.
C10_PagesCoverAllEntries ==
  PagingEnded => Collected = 1..Total(store)

(***************************************************************************)
(* Inspect responses and mutation handlers: properties                     *)
(***************************************************************************)
\* C11: in every hash or set inspect response, truncated is true exactly
\* when the key holds more entries than the response carries or the
\* returned cursor is not "0".
C11_TruncatedRule ==
  resp.type \in {"hash", "set"} =>
    LET carried == IF resp.type = "hash" THEN Cardinality(DOMAIN resp.value)
                   ELSE Len(resp.value)
    IN /\ resp.meta.total = Total(store)
       /\ resp.meta.previewCount = carried
       /\ resp.meta.truncated <=>
            (Total(store) > carried \/ resp.meta.nextCursor # "0")

\* a response that is truncated although the cursor is back at "0"
C11_Witness ==
  /\ resp.type \in {"hash", "set"}
  /\ resp.meta.nextCursor = "0"
  /\ resp.meta.total > resp.meta.previewCount
  /\ resp.meta.truncated

\* C12: every inspect response for a list key carries the elements from
\* start on, with start + previewCount = end + 1 and truncated true exactly
\* when start + previewCount < total, also when the slice is empty.
C12_ListWindow ==
  (req.path = "/api/value" /\ res.success /\ res.type = "list") =>
    LET m == res.meta IN
    /\ m.total = Len(kv.list)
    /\ m.previewCount = Len(res.value.a)
    /\ res.value.a = SubSeq(kv.list, m.start + 1, m.start + m.previewCount)
    /\ m.start + m.previewCount = m.end + 1
    /\ m.truncated <=> (m.start + m.previewCount < m.total)

\* an empty slice: the request starts behind the last element of the list
C12_Witness ==
  /\ req.path = "/api/value"
  /\ res.success
  /\ res.type = "list"
  /\ res.meta.start > 0
  /\ res.meta.previewCount = 0
  /\ res.meta.end = res.meta.start - 1

\* C13: whatever the previewLimit field of the request holds, the limit an
\* inspect request uses (the length of the range it asks the backend for)
\* is a whole number from 1 to 1000, and it is 200 when the field is absent,
\* not a number, zero or negative.
C13_LimitInRange ==
  \A i \in 1..Len(log) :
    (req.path = "/api/value" /\ log[i].op = "LRANGE") =>
      LET used == log[i].m - log[i].n + 1
          raw  == req.body.previewLimit
      IN /\ used \in 1..MaxPreviewLimit
         /\ (raw.kind # "number" \/ raw.num <= 0) => used = DefaultPreviewLimit

\* a mutation request whose body lacks the key, lacks a payload the
\* endpoint requires, or carries a payload of the wrong shape
InvalidBody(path, body) ==
  \/ Falsy(body.key)
  \/ path = "/api/set" /\
       \/ Falsy(body.type)
       \/ body.type.s = "string" /\ body.value.kind # "string"
       \/ body.type.s = "hash" /\ body.value.kind # "object"
  \/ path = "/api/hll/add" /\ body.elements.kind # "array"
  \/ path = "/api/list/push" /\ body.values.kind # "array"
  \/ path = "/api/list/set-at" /\
       (~ IsInteger(body.index) \/ body.value.kind # "string")
  \/ path = "/api/list/del-at" /\ ~ IsInteger(body.index)

\* C14: a mutation request with a missing key, a missing required payload
\* or a payload of the wrong shape fails with an error message before any
\* backend call: no Session is acquired, no command is sent, the key is
\* left as it was.
C14_ValidationBeforeBackend ==
  [][(/\ req = NoReq
      /\ req' # NoReq
      /\ req'.path # "/api/value"
      /\ InvalidBody(req'.path, req'.body))
     => (/\ res'.status = 500
         /\ res'.message # ""
         /\ log' = <<>>
         /\ kv' = kv)]_vars

\* C15: a mutating operation that succeeds on a request with a positive
\* ttl has sent, after its primary write, a separate expire command with
\* that ttl.
C15_ExpireAfterWrite ==
  (/\ req.path \in {"/api/set", "/api/hll/add", "/api/list/push",
                    "/api/list/set-at", "/api/list/del-at"}
   /\ PositiveNumber(req.body.ttl)
   /\ res.success)
  => \E i \in 3..Len(log) :
       /\ log[i].op = "EXPIRE"
       /\ log[i].n = req.body.ttl.num \div req.body.ttl.den
       /\ \A j \in 1..(i - 1) : log[j].op # "EXPIRE"

\* C16: a list delete-at that succeeds wrote a marker that no element of
\* the list equalled at the index and then removed one element by that
\* value: the list afterwards is the list before without the element at
\* the index, the other elements in their order.
C16_DelAtRemovesIndexed ==
  [][(/\ req = NoReq
      /\ req'.path = "/api/list/del-at"
      /\ res'.success)
     => LET old   == kv.list
            index == req'.body.index.num \div req'.body.index.den
            p     == IF index >= 0 THEN index + 1 ELSE Len(old) + index + 1
        IN /\ p \in 1..Len(old)
           /\ Len(log') = 3
           /\ log'[2].op = "LSET" /\ log'[2].n = index
           /\ log'[3].op = "LREM" /\ log'[3].n = 1 /\ log'[3].s = log'[2].s
           /\ \A j \in 1..Len(old) : old[j] # log'[2].s
           /\ Len(kv'.list) = Len(old) - 1
           /\ \A j \in 1..(Len(old) - 1) :
                kv'.list[j] = IF j < p THEN old[j] ELSE old[j + 1]]_vars

\* a delete-at succeeded in the middle of a longer list that still holds a
\* marker of an earlier, failed delete-at
C16_Witness ==
  /\ req.path = "/api/list/del-at"
  /\ res.success
  /\ Len(kv.list) = MaxList - 1
  /\ req.body.index = Rat(1, 1)
  /\ \E j \in 1..Len(kv.list) : kv.list[j] \notin Values

\* the handler sent the command op for the request
Sent(op) == \E i \in 1..Len(log) : log[i].op = op

\* C17: inspect of a string key whose cardinality probe fails (as it does
\* on every string that is not a HyperLogLog) succeeds and returns type
\* "string" with the value as stored.
C17_PlainStringKept ==
  (req.path = "/api/value" /\ kv.type = "string" /\ Sent("GET")) =>
    /\ Sent("PFCOUNT")
    /\ ~ kv.hll => ~ Sent("STRLEN")
    /\ ~ Sent("STRLEN") =>
         /\ res.status = 200
         /\ res.success
         /\ res.type = "string"
         /\ res.value = StrValue(kv.str)

\* a plain string inspected while the memory probe failed as well
C17_Witness ==
  /\ req.path = "/api/value"
  /\ kv.type = "string"
  /\ ~ kv.hll
  /\ Sent("PFCOUNT")
  /\ res.type = "string"
  /\ res.value = StrValue("a")
  /\ res.meta.fields = {}

\* C18: inspect of a key that probabilistic-set adds created, with both
\* probes answered, returns type "hyperloglog", a null value, and a meta
\* whose count is the number of distinct elements added and whose bytes is
\* the length of the stored string.
C18_HllReclassified ==
  (/\ req.path = "/api/value"
   /\ res.success
   /\ kv.type = "string"
   /\ kv.hll
   /\ req.probeFails \cap {"PFCOUNT", "STRLEN"} = {})
  => /\ res.type = "hyperloglog"
     /\ res.value = NullValue
     /\ {"count", "bytes"} \subseteq res.meta.fields
     /\ res.meta.count = Cardinality(kv.elems)
     /\ res.meta.bytes = Len(kv.str)

\* the key that the elements a, b, a were added to is inspected
C18_Witness ==
  /\ req.path = "/api/value"
  /\ kv.hll
  /\ kv.elems = {"a", "b"}
  /\ res.type = "hyperloglog"
  /\ res.meta.count = 2

\* C19: an inspect request whose memory-footprint probe fails still
\* succeeds, and the meta of every successful inspect response has
\* memoryBytes, null when the probe failed.
C19_MemoryBytesAlways ==
  req.path = "/api/value" =>
    /\ "MEMORY" \in req.probeFails => res.success
    /\ res.success =>
         /\ "memoryBytes" \in res.meta.fields
         /\ "MEMORY" \in req.probeFails => res.meta.memoryBytes = Null

\* C20: an inspect request that names a connection and whose key is
\* missing or empty fails with the key-required error before a Session is
\* acquired and before any command is sent.
C20_KeyRequiredFirst ==
  (/\ req.path = "/api/value"
   /\ req.body.connectionId = JStr(TheConnection)
   /\ req.body.key \in {JAbsent, JStr("")})
  => /\ res.status = 500
     /\ ~ res.success
     /\ res.message = "Key is required"
     /\ log = <<>>

\* an inspect request with an empty key was answered
C20_Witness ==
  /\ req.path = "/api/value"
  /\ req.body.connectionId = JStr(TheConnection)
  /\ req.body.key = JStr("")
  /\ res.status = 500

(***************************************************************************)
(* Absent keys, replace, responses: properties                             *)
(***************************************************************************)

\* C21: an inspect request for a key that the store does not hold, once a
\* Session is there, succeeds with type "none", a null value and ttl -2,
\* whichever probe fails: absence of the key is no failure.
C21_AbsentKeyIsNone ==
  (/\ req.path = "/api/value"
   /\ kv.type = "none"
   /\ Len(log) > 1)
  => /\ res.status = 200
     /\ res.success
     /\ res.type = "none"
     /\ res.value = NullValue
     /\ res.ttl = -2

\* an absent key inspected while the memory probe fails
C21_Witness ==
  /\ req.path = "/api/value"
  /\ kv = NoKey
  /\ "MEMORY" \in req.probeFails
  /\ res.success
  /\ res.type = "none"

\* C22: a scan whose TYPE lookup failed for some key is answered all the
\* same, with one entry per unique key in order; the entry of a key whose
\* lookup failed has type "unknown", every other entry has the key's type.
C22_UnknownForFailedOnly ==
  scan.pc = "done" =>
    /\ Len(scan.data) = Len(scan.uniqueKeys)
    /\ \A i \in 1..Len(scan.data) :
         /\ scan.data[i].key = scan.uniqueKeys[i]
         /\ scan.data[i].type =
              IF i \in scan.failed THEN "unknown" ELSE TypeOf(scan.data[i].key)

\* the lookup of the second key failed: it alone is unknown
C22_Witness ==
  /\ scan.pc = "done"
  /\ scan.failed = {2}
  /\ Len(scan.data) > 2
  /\ scan.data[2].type = "unknown"
  /\ scan.data[1].type # "unknown"
  /\ scan.data[3].type # "unknown"

\* C23: after a successful /api/set of type hash with object V the key's
\* fields and values are exactly those of V: a field the key held before
\* and V does not name is gone.
C23_HashSetReplaces ==
  (/\ req.path = "/api/set"
   /\ req.body.type = JStr("hash")
   /\ res.success)
  => /\ kv.type = "hash"
     /\ kv.hash = req.body.value.h

\* C24: a request is answered with one of two responses: status 200 with
\* success = true and no message, or status 500 with success = false and
\* a message.  It is the second when the connection id is missing, when
\* getConnection throws, when the backend fails a command, and when the
\* handler's validation refuses the body.
C24_OneEnvelope ==
  req # NoReq =>
    /\ \/ res.status = 200 /\ res.success /\ res.message = ""
       \/ res.status = 500 /\ ~ res.success /\ res.message # ""
    /\ Falsy(req.body.connectionId) =>
         res.status = 500 /\ res.message = "Connection ID is required"
    /\ req.fault # NoFault => res.status = 500
    /\ (req.path # "/api/delete" /\ InvalidBody(req.path, req.body)) =>
         res.status = 500

\* a command of a mutation was rejected by the backend after an earlier
\* one was accepted
C24_Witness ==
  /\ req.path = "/api/set"
  /\ req.fault = <<TRUE, 2>>
  /\ Len(log) = 3
  /\ res.status = 500
  /\ res.message = BackendError

\* C25: no object of a response of the connection-profile endpoints has a
\* password member, and no member or message of a response is one of the
\* passwords that requests have carried, whatever requests came before.
C25_NoPasswordInResponse ==
  /\ out.message \notin Passwords
  /\ \A e \in out.data :
       /\ e.password = Undefined
       /\ e.id \notin Passwords
       /\ e.host \notin Passwords

\* the list returned while a saved connection holds a password
C25_Witness ==
  /\ out.success
  /\ Cardinality(out.data) = 2
  /\ \E id \in Ids : fileStore[id] # None /\ fileStore[id].password \in Passwords

(***************************************************************************)
(* Registry: reuse and eviction (Spec)                                     *)
(***************************************************************************)
\* the states in which the registry is to hand a Session out again: ready,
\* or on its way to ready (ioredis: 'connecting', then 'connect')
ReadyOrConnecting(status) == status \in {"ready", "connecting", "connect"}

\* C26: an acquire whose composite key has a Session in the map that is
\* ready or connecting returns that Session and leaves every client and
\* the map as they are.
C26_HitLeavesAllUnchanged ==
  [][\A c \in Callers :
       (/\ call[c].pc = "idle"
        /\ call'[c].pc # "idle"
        /\ call'[c].key \in DOMAIN connections
        /\ ReadyOrConnecting(clients[connections[call'[c].key]].status))
       => (/\ call'[c].pc = "done"
           /\ call'[c].client = connections[call'[c].key]
           /\ clients' = clients
           /\ connections' = connections)]_vars

\* C27: a Session leaves the map, or is closed while in the map, only in
\* a step of an acquire for its own composite key that found it neither
\* ready nor connecting; that step closes the Session, removes its entry
\* and constructs the replacement.
C27_RemovedOnlyByOwnAcquire ==
  [][\A k \in DOMAIN connections :
       LET s == connections[k] IN
       (\/ k \notin DOMAIN connections'
        \/ connections'[k] # s
        \/ clients'[s].status = "end" /\ clients[s].status # "end")
       => (/\ ~ ReadyOrConnecting(clients[s].status)
           /\ clients'[s].status = "end"
           /\ k \notin DOMAIN connections'
           /\ Len(clients') = Len(clients) + 1
           /\ \E c \in Callers :
                /\ call[c].pc = "idle"
                /\ call'[c].pc = "awaiting"
                /\ call'[c].key = k
                /\ call'[c].client = Len(clients'))]_vars

(***************************************************************************)
(* Keyspace scanner: end of the cursor walk (SpecScan)                     *)
(***************************************************************************)
\* C28: a scan that returns fewer than hardCap unique keys has walked the
\* cursor to its end: the last reply's cursor was "0".
C28_BelowCapMeansComplete ==
  (scan.pc = "done" /\ Len(scan.data) < HardCap) => scan.cursor = "0"

\* C29: one scan request calls client.scan at most hardCap / pageSize
\* times, whatever keys of the store do not match the pattern.
C29_RoundTripsBounded ==
  scan.trips <= HardCap \div PageCount

(***************************************************************************)
(* List paging (SpecListPaging)                                            *)
(***************************************************************************)
\* C30: the editor that resumes a list at start = end + 1 while truncated
\* is true comes to a response with truncated = false; at every moment the
\* pages it has put together are the list's head, element by element, and
\* at the end they are the list.
C30_ListPagingCompletes ==
  /\ <>(view.type = "list" /\ ~ view.truncated)
  /\ [](/\ Len(view.listItems) <= Len(kv.list)
        /\ view.listItems = SubSeq(kv.list, 1, Len(view.listItems))
        /\ view.type = "list" => view.listNextStart = Len(view.listItems))
  /\ []((view.type = "list" /\ ~ view.truncated) => view.listItems = kv.list)

\* a list of three elements read in three pages of one
C30_Witness ==
  /\ view.type = "list"
  /\ ~ view.truncated
  /\ limitRaw = Rat(1, 1)
  /\ req.body.start = Rat(2, 1)
  /\ Len(kv.list) = 3
  /\ view.listItems = kv.list

(***************************************************************************)
(* Inspector: size of a page (SpecInspect)                                 *)
(***************************************************************************)
\* C31: a hash or set inspect response holds at most previewLimit entries,
\* and previewCount is their number, also when the scan step returned
\* more entries than previewLimit.
C31_PreviewCountWithinLimit ==
  resp.type \in {"hash", "set"} =>
    /\ resp.meta.previewCount <= PreviewLimit(limitRaw)
    /\ resp.meta.previewCount =
         IF resp.type = "hash" THEN Cardinality(DOMAIN resp.value)
         ELSE Len(resp.value)

\* a scan step of a set returned more members than previewLimit and the
\* response holds previewLimit of them
C31_Witness ==
  /\ resp.type = "set"
  /\ resp.meta.previewCount = PreviewLimit(limitRaw)
  /\ Len(ScanStep(store, resp.meta.cursor, PreviewLimit(limitRaw)).entries)
       > PreviewLimit(limitRaw)

(***************************************************************************)
(* Target database (SpecDb)                                                *)
(***************************************************************************)
\* the override a db field supplies: a number, or a string that spells
\* one; an absent, null or non-numeric field supplies none
Override(db) ==
  IF db.kind = "number" THEN Num(db.n)
  ELSE IF db.kind = "string" THEN
    (IF ParseInt(db.s) = NaN THEN NoNumber ELSE ParseInt(db.s))
  ELSE NoNumber

\* C32: the Session of a request is on the database its db field
\* supplies, otherwise on the profile's default db, otherwise on 0, and
\* targetDb is that database, whatever the db field is.
C32_TargetDb ==
  dbCase.pc = "resolved" =>
    LET want == IF Override(dbCase.db) # NoNumber THEN Override(dbCase.db)
                ELSE IF dbCase.profileDb # NoNumber THEN dbCase.profileDb
                ELSE Num(0)
    IN /\ dbCase.targetDb = want
       /\ dbCase.selected = want.n

(***************************************************************************)
(* First connection of a new client (SpecDial)                             *)
(***************************************************************************)
\* the backend accepts no attempt of the client
Unreachable == \A a \in 1..MaxAttempts : dial.net[a] # "accept"

\* C33: a new client reconnects at most twice, each time after 200 ms,
\* and getConnection for a backend that refuses every attempt comes to
\* throw, with the client disconnected.
C33_ConnectGivesUp ==
  /\ [](dial.retries <= 2)
  /\ [](dial.status = "reconnecting" => dial.delay = 200)
  /\ [](dial.pc = "failed" => dial.status = "end")
  /\ (dial.pc = "awaiting" /\ Unreachable) ~> (dial.pc = "failed")

\* the backend refused the first attempt and both retries
C33_Witness ==
  /\ dial.pc = "failed"
  /\ Unreachable
  /\ dial.retries = 2
  /\ dial.times = 3

(***************************************************************************)
(* Mutation handlers: atomicity, expiry, classification (SpecApi)          *)
(***************************************************************************)
\* C34: whatever a list delete-at request reports, the list afterwards is
\* the list before or the list before without the element at the index;
\* no element of it is the marker the request wrote.
C34_DelAtAllOrNothing ==
  [][(/\ req = NoReq
      /\ req'.path = "/api/list/del-at")
     => LET old == kv.list
            p   == IF IsInteger(req'.body.index)
                   THEN ListPos(old, req'.body.index.num
                                       \div req'.body.index.den)
                   ELSE 0
        IN /\ \/ kv'.list = old
              \/ p # 0 /\ kv'.list = RemoveAt(old, p)
           /\ \A i \in 1..Len(log') :
                log'[i].op = "LSET" =>
                  \A j \in 1..Len(kv'.list) : kv'.list[j] # log'[i].s]_vars

(***************************************************************************)
(* Connection key (SpecKey)                                                *)
(***************************************************************************)
\* C35: two parameter sets that differ in host, port, target db or
\* credential (an absent and an empty password being one credential) have
\* different connection keys.
C35_KeyInjective ==
  keyCase.pc = "computed" =>
    ((\/ keyCase.a.host # keyCase.b.host
      \/ keyCase.a.port # keyCase.b.port
      \/ keyCase.a.db # keyCase.b.db
      \/ PasswordOrEmpty(keyCase.a.password)
           # PasswordOrEmpty(keyCase.b.password))
     => keyCase.keyA # keyCase.keyB)


\* C36: a mutating request whose ttl is absent or not a positive number
\* sends no EXPIRE, and a key that exists before and after the request
\* keeps the expiry it had.
C36_NoTtlKeepsExpiry ==
  [][(/\ req = NoReq
      /\ req'.path \in {"/api/set", "/api/hll/add", "/api/list/push",
                        "/api/list/set-at", "/api/list/del-at"}
      /\ ~ PositiveNumber(req'.body.ttl))
     => /\ \A i \in 1..Len(log') : log'[i].op # "EXPIRE"
        /\ (kv.type # "none" /\ kv'.type # "none") => kv'.ttl = kv.ttl]_vars


\* C37: a successful inspect response has type "hyperloglog" exactly when
\* its value is null and its meta has count and bytes, which then are the
\* key's cardinality and the length of its string; a response of type
\* "string" has the raw value and no count, also when PFCOUNT returned
\* and STRLEN threw.
C37_ConsistentlyClassified ==
  (req.path = "/api/value" /\ res.success)
  => /\ res.type = "hyperloglog"
          <=> (/\ res.value = NullValue
               /\ {"count", "bytes"} \subseteq res.meta.fields)
     /\ res.type = "hyperloglog"
          => /\ res.meta.count = PfCount(kv)
             /\ res.meta.bytes = StrLen(kv)
     /\ res.type = "string"
          => /\ res.value = StrValue(kv.str)
             /\ "count" \notin res.meta.fields

\* a HyperLogLog key inspected, PFCOUNT returned and STRLEN threw
C37_Witness ==
  /\ req.path = "/api/value"
  /\ res.success
  /\ kv.hll
  /\ req.probeFails = {"STRLEN"}
  /\ Len(log) = 7
  /\ res.type = "string"
  /\ res.value = StrValue(HllString)


\* C38: a PUT that responds with success has saved the profile it returns,
\* under the id and with the createdAt that the profile had, also when a
\* DELETE or another PUT of the profile ran while the PUT awaited its
\* connection check.
C38_UpdatePersisted ==
  [][\A s \in Slots :
       (put[s].pc = "awaiting" /\ put'[s].pc = "idle" /\ out'.success)
       => /\ fileStore'[put[s].id] # None
          /\ out'.data
               = {SafeConnection(Entry(put[s].id, fileStore'[put[s].id]))}
          /\ fileStore[put[s].id] # None
               => fileStore'[put[s].id].createdAt
                    = fileStore[put[s].id].createdAt]_vars


\* C39: once no load of the editor is in flight and none failed since the
\* key was selected, the fields shown (key name, type, value, ttl, list
\* cursor) are those of the selected key, in whatever order the responses
\* arrived.
C39_ShowsSelectedKey ==
  (/\ editor.currentKey # NoKeyName
   /\ \A k \in EditorKeys : editor.loads[k] = 0
   /\ ~ editor.toast)
  => editor.shown = Loaded(editor.currentKey)


\* C40: while connectionsLoadStatus is "loading" a fetch is in flight; a
\* fetch that ends sets the status to "loaded" on success and to "idle" on
\* failure; the step that follows "idle" is the effect's, which starts a
\* new fetch, and it is taken; and a status of "loading" leads to "loaded"
\* once the backend answers a fetch with success.
C40_LoadNeverStuck ==
  /\ [](loader.status = "loading"
          => (loader.fetches > 0 \/ loader.handler = "fetching"))
  /\ [][(\/ loader'.fetches < loader.fetches
         \/ (loader.handler = "fetching" /\ loader'.handler = "idle"))
        => /\ loader'.status \in {"loaded", "idle"}
           /\ loader'.status = "idle" <=> loader'.failures > loader.failures
           /\ ~ loader'.isLoading]_vars
  /\ [][loader.status = "idle"
          => /\ loader'.status = "loading"
             /\ loader'.fetches = loader.fetches + 1]_vars
  /\ (loader.status = "idle") ~> (loader.status = "loading")
  /\ (loader.status = "loading") ~> (loader.status = "loaded")

\* a fetch failed, the effect fetched again and the list is loaded
C40_Witness ==
  /\ loader.status = "loaded"
  /\ loader.failures > 0
  /\ loader.connections # {}
  /\ loader.fetches = 0
  /\ loader.handler = "idle"

=============================================================================
